---- MODULE Spec2Model ----
(***************************************************************************)
(* A model of jupyters3.py: a notebook/file contents manager kept in a     *)
(* flat object store.                                                      *)
(*                                                                         *)
(* Strings that are paths or keys are modelled by their split on "/":      *)
(*   ""    is <<"">>        "/"   is <<"", "">>     "a"   is <<"a">>       *)
(*   "/a"  is <<"", "a">>   "a/"  is <<"a", "">>    "a/b" is <<"a", "b">>  *)
(* so s + "/" + t is s \o t, s + "/" is Append(s, ""), s.count("/") is     *)
(* Len(s) - 1 and s.split("/")[-1] is the last component.                  *)
(* Byte strings are sequences of tokens: b"" is <<>>.                      *)
(***************************************************************************)
EXTENDS Integers, Sequences, FiniteSets, TLC

VARIABLES
    store,      \* the bucket: a function from the keys that exist to their bytes
    uploads,    \* multipart_uploads: path -> [expires, value]
    mono,       \* int(time.monotonic()), in seconds
    cur,        \* the engine operation in progress (its coroutine frame), or idle
    log,        \* the store requests issued by the operation in progress or last run
    done,       \* how each finished operation ended, oldest first
    faults,     \* store requests that have failed so far
    nops,       \* operations started so far
    fetch,      \* _fetch_with_retry: the attempts of one logical store request
    pager,      \* _list_keys: one listing, page after page
    auth,       \* the ECS role authentication, its clock and the callers asking it
    calls,      \* the calls of the manager's mutating methods, by caller
    lock,       \* write_lock: who holds it and who waits for it, in order
    wire        \* the store requests issued by the calls, each under its caller

vars ==
    <<store, uploads, mono, cur, log, done, faults, nops, fetch, pager, auth, calls, lock,
      wire>>

engineVars == <<store, uploads, mono, cur, log, done, faults, nops>>

netVars == <<fetch, pager, auth>>

lockVars == <<calls, lock, wire>>

----------------------------------------------------------------------------
(* Bounds of the model *)

\* operations started in one behaviour
MaxOps == 3
\* store requests that may fail in one behaviour
MaxFaults == 1
\* keys in one batch delete request: 1000 in the source, scaled down so that
\* a delete of a few keys takes several requests
DeleteBatchSize == 2

----------------------------------------------------------------------------
(* Names, keys and paths *)

\* "/"
DIRECTORY_SUFFIX == <<"", "">>
NOTEBOOK_SUFFIX == ".ipynb"
CHECKPOINT_SUFFIX == ".checkpoints"

\* The path components of the model, in byte order ("-" < "." < digits <
\* letters).  The one name that begins with another is "ab", and "/" comes
\* before "b", so comparing keys component by component agrees with comparing
\* them as strings.
NameOrder ==
    <<"", ".checkpoints", "1", "2", "a", "ab", "b", "c",
      "n-Copy1.ipynb", "n-Copy2.ipynb", "n-Copy3.ipynb", "n.ipynb",
      "t-Copy1.txt", "t-Copy2.txt", "t-Copy3.txt", "t.txt">>

Names == {NameOrder[i] : i \in 1..Len(NameOrder)}

NameRank(name) == CHOOSE i \in 1..Len(NameOrder) : NameOrder[i] = name

\* The file names that carry a dot, each with the pieces the string functions
\* of the code cut it into: the text before the first dot, a "-Copy" marker
\* and its digits, the dot, the extension.
FileNames ==
    << <<"n.ipynb", <<"n", ".", "ipynb">> >>,
       <<"n-Copy1.ipynb", <<"n", "-Copy", "1", ".", "ipynb">> >>,
       <<"n-Copy2.ipynb", <<"n", "-Copy", "2", ".", "ipynb">> >>,
       <<"n-Copy3.ipynb", <<"n", "-Copy", "3", ".", "ipynb">> >>,
       <<"t.txt", <<"t", ".", "txt">> >>,
       <<"t-Copy1.txt", <<"t", "-Copy", "1", ".", "txt">> >>,
       <<"t-Copy2.txt", <<"t", "-Copy", "2", ".", "txt">> >>,
       <<"t-Copy3.txt", <<"t", "-Copy", "3", ".", "txt">> >> >>

\* A name as its pieces, and the name that a sequence of pieces spells.
Pieces(name) ==
    IF \E i \in 1..Len(FileNames) : FileNames[i][1] = name
    THEN FileNames[CHOOSE i \in 1..Len(FileNames) : FileNames[i][1] = name][2]
    ELSE <<name>>

Spelt(pieces) == CHOOSE name \in Names : Pieces(name) = pieces

\* name.endswith(".ipynb")
EndsWithIpynb(name) ==
    /\ Len(Pieces(name)) >= 2
    /\ Pieces(name)[Len(Pieces(name)) - 1] = "."
    /\ Pieces(name)[Len(Pieces(name))] = "ipynb"

\* mimetypes.guess_type(name)[0] == "text/plain"
GuessTextPlain(name) ==
    /\ Len(Pieces(name)) >= 2
    /\ Pieces(name)[Len(Pieces(name)) - 1] = "."
    /\ Pieces(name)[Len(Pieces(name))] = "txt"

SeqToSet(seq) == {seq[i] : i \in 1..Len(seq)}

Last(s) == s[Len(s)]

Front(s) == SubSeq(s, 1, Len(s) - 1)

Min(a, b) == IF a < b THEN a ELSE b

\* s.endswith("/")
EndsWithSlash(s) == Len(s) >= 2 /\ Last(s) = ""

\* s.count("/")
CountSlash(s) == Len(s) - 1

\* byte order of two keys
KeyLess(a, b) ==
    \E i \in 1..(Min(Len(a), Len(b)) + 1) :
        /\ \A j \in 1..(i - 1) : a[j] = b[j]
        /\ \/ i > Len(a) /\ i <= Len(b)
           \/ i <= Len(a) /\ i <= Len(b) /\ NameRank(a[i]) < NameRank(b[i])

\* the pairs of names of which the first is the beginning of the second
Beginnings == {<<"a", "ab">>}

\* string.startswith(prefix), for strings split on "/": the components
\* before the last "/" of the prefix are the same, and the rest of the prefix
\* begins the component it falls in
StartsWith(s, prefix) ==
    /\ Len(s) >= Len(prefix)
    /\ \A j \in 1..(Len(prefix) - 1) : s[j] = prefix[j]
    /\ \/ Last(prefix) = ""
       \/ Last(prefix) = s[Len(prefix)]
       \/ <<Last(prefix), s[Len(prefix)]>> \in Beginnings

\* s + t, where t begins with "/" or s ends with "/" (or is empty)
StrCat(s, t) == IF t[1] = "" THEN s \o Tail(t) ELSE Front(s) \o t

RECURSIVE LStripSlash(_)
\* path.lstrip("/")
LStripSlash(path) ==
    IF Len(path) > 1 /\ path[1] = "" THEN LStripSlash(Tail(path)) ELSE path

\* context.prefix is the empty string (the default of the prefix trait)
_key(path) == LStripSlash(path)

_path(key) == <<"">> \o key

_final_path_component(key_or_path) == Last(key_or_path)

_is_root(path) == path = <<"">> \/ path = <<"", "">>

\* "not path": the empty string only
IsEmptyString(path) == path = <<"">>

\* a copy order that puts the markers after the keys of their depth
_copy_sort_key_markers_last(key) ==
    <<CountSlash(key), IF EndsWithSlash(key) THEN 1 ELSE 0>>

_copy_sort_key(key) == <<CountSlash(key), IF EndsWithSlash(key) THEN 0 ELSE 1>>

\* a delete order that is the copy order
_delete_sort_key_ascending(key) == _copy_sort_key(key)

_delete_sort_key(key) == <<-1 * _copy_sort_key(key)[1], -1 * _copy_sort_key(key)[2]>>

\* tuple comparison of two sort keys
TupleLess(x, y) == x[1] < y[1] \/ (x[1] = y[1] /\ x[2] < y[2])

\* sorted(seq, key=...): a stable sort; keys[i] is the sort key of seq[i]
Sorted(seq, keys) ==
    LET n == Len(seq)
        before(j, i) == TupleLess(keys[j], keys[i]) \/ (keys[j] = keys[i] /\ j < i)
        rank(i) == Cardinality({j \in 1..n : before(j, i)}) + 1
    IN  [r \in 1..n |-> seq[CHOOSE i \in 1..n : rank(i) = r]]

\* the keys of a set in the order the store lists them (byte order)
InListingOrder(S) ==
    LET rank(k) == Cardinality({j \in S : KeyLess(j, k)}) + 1
    IN  [r \in 1..Cardinality(S) |-> CHOOSE k \in S : rank(k) = r]

----------------------------------------------------------------------------
(* Exceptions and store responses *)

NoEx == [type |-> "none", code |-> 0, msg |-> ""]

HTTPServerError(code, msg) == [type |-> "HTTPServerError", code |-> code, msg |-> msg]

HTTPClientError(code) == [type |-> "HTTPClientError", code |-> code, msg |-> ""]

RetryError(code) == [type |-> "RetryError", code |-> code, msg |-> ""]

\* the statuses a failing store request answers with in the engine model
FaultCodes == {403, 503}

NoFault == [at |-> 0, code |-> 0, applied |-> FALSE]

\* exc.code in (429, 599) or 500 <= exc.code < 600
RetryableCode(code) == code \in {429, 599} \/ (500 <= code /\ code < 600)

\* what _make_s3_request raises when the store answers an error status:
\* a retryable status has been retried until the attempts ran out
RaisedBy(code) == IF RetryableCode(code) THEN RetryError(code) ELSE HTTPClientError(code)

Req(m, key, src) == [m |-> m, key |-> key, src |-> src]

----------------------------------------------------------------------------
(* The store: what one logical request does to the bucket *)

\* "x = e; body": K applied to the value of e
Bind(e, K(_)) == K(e)

Put(st, key, bytes) == [k \in (DOMAIN st) \cup {key} |-> IF k = key THEN bytes ELSE st[k]]

Remove(st, keys) == [k \in (DOMAIN st) \ keys |-> st[k]]

\* the request number Len(lg) fails with F.code when F.at names it
Fails(lg, F) == F.at = Len(lg)

FaultsUsed(lg, F) == IF F.at >= 1 /\ F.at <= Len(lg) THEN 1 ELSE 0

\* the status the store answers request number Len(lg) with, when that
\* request reads `key`
StatusOf(st, key, lg, F) ==
    IF Fails(lg, F) THEN F.code ELSE IF key \in DOMAIN st THEN 200 ELSE 404

\* GET ?list-type=2 with prefix and delimiter, all pages concatenated
_list_keys(st, key_prefix, delimiter, lg, F) ==
    Bind({k \in DOMAIN st : StartsWith(k, key_prefix)}, LAMBDA matching :
        [log |-> Append(lg, Req("LIST", key_prefix, <<>>)),
         ex |-> IF F.at = Len(lg) + 1 THEN RaisedBy(F.code) ELSE NoEx,
         keys |-> IF F.at = Len(lg) + 1 THEN <<>>
                  ELSE InListingOrder(
                         IF delimiter
                         THEN {k \in matching : Len(k) = Len(key_prefix)}
                         ELSE matching),
         dirs |-> IF F.at = Len(lg) + 1 \/ ~delimiter THEN <<>>
                  ELSE InListingOrder(
                         {SubSeq(k, 1, Len(key_prefix)) :
                            k \in {j \in matching : Len(j) > Len(key_prefix)}})])

_list_immediate_child_keys_and_directories(st, key_prefix, lg, F) ==
    _list_keys(st, key_prefix, TRUE, lg, F)

\* a listing of everything that begins with the prefix less its last "/"
_list_all_descendant_keys_unslashed(st, key_prefix, lg, F) ==
    _list_keys(st, Front(key_prefix), FALSE, lg, F)

_list_all_descendant_keys(st, key_prefix, lg, F) ==
    _list_keys(st, key_prefix, FALSE, lg, F)

_file_exists(st, path, lg, F) ==
    IF _is_root(path)
    THEN [log |-> lg, ex |-> NoEx, val |-> FALSE]
    ELSE Bind(Append(lg, Req("HEAD", _key(path), <<>>)), LAMBDA lg2 :
         Bind(StatusOf(st, _key(path), lg2, F), LAMBDA code :
             IF code \in {200, 403, 404}
             THEN [log |-> lg2, ex |-> NoEx, val |-> code = 200]
             ELSE [log |-> lg2,
                   ex |-> IF RetryableCode(code) THEN RetryError(code)
                          ELSE HTTPServerError(code, "Error checking if S3 exists"),
                   val |-> FALSE]))

\* key_prefix if key_prefix.endswith("/") else key_prefix + "/"
WithSlash(key_prefix) ==
    IF EndsWithSlash(key_prefix) THEN key_prefix ELSE StrCat(key_prefix, DIRECTORY_SUFFIX)

\* a directory check that looks for the marker only
_dir_exists_marker_only(st, path, lg, F) ==
    IF _is_root(path)
    THEN [log |-> lg, ex |-> NoEx, val |-> TRUE]
    ELSE _file_exists(st, StrCat(path, DIRECTORY_SUFFIX), lg, F)

_dir_exists(st, path, lg, F) ==
    IF _is_root(path)
    THEN [log |-> lg, ex |-> NoEx, val |-> TRUE]
    ELSE Bind(_file_exists(st, StrCat(path, DIRECTORY_SUFFIX), lg, F), LAMBDA marker :
             IF marker.ex # NoEx \/ marker.val
             THEN marker
             ELSE Bind(_list_immediate_child_keys_and_directories(
                           st, WithSlash(_key(path)), marker.log, F), LAMBDA listing :
                     [log |-> listing.log, ex |-> listing.ex,
                      val |-> listing.ex = NoEx
                              /\ (listing.keys # <<>> \/ listing.dirs # <<>>)]))

\* an existence check that looks for the object only
_exists_object_only(st, path, lg, F) ==
    _file_exists(st, path, lg, F)

_exists(st, path, lg, F) ==
    Bind(_file_exists(st, path, lg, F), LAMBDA f :
        IF f.ex # NoEx \/ f.val THEN f ELSE _dir_exists(st, path, f.log, F))

_type_from_path(st, path, lg, F) ==
    IF EndsWithIpynb(Last(path))
    THEN [log |-> lg, ex |-> NoEx, val |-> "notebook"]
    ELSE Bind(_dir_exists(st, path, lg, F), LAMBDA d :
             [log |-> d.log, ex |-> d.ex,
              val |-> IF d.ex = NoEx /\ d.val THEN "directory" ELSE "file"])

_format_from_type_and_path(type, path) ==
    IF type \in {"notebook", "directory"} THEN "json"
    ELSE IF GuessTextPlain(Last(path)) THEN "text" ELSE "base64"

_type_from_path_not_directory(path) ==
    IF EndsWithIpynb(Last(path)) THEN "notebook" ELSE "file"

----------------------------------------------------------------------------
(* Bytes, documents and the codecs of the read engine *)

\* Notebook JSON is <<"nb", layout, kind>> \o fragments: layout says whether
\* the text is laid out as json.dumps writes it, kind whether the one cell's
\* source is a list of line fragments or one string; fragments are the
\* fragments of the list, or the characters of the string.
IsNotebookJson(bytes) ==
    Len(bytes) >= 3 /\ bytes[1] = "nb" /\ bytes[2] \in {"dumps", "indented"}
                    /\ bytes[3] \in {"list", "str"}

\* the byte 0xff, which no UTF-8 text holds
ValidUtf8(bytes) == \A i \in 1..Len(bytes) : bytes[i] # "xff"

NoneV == [some |-> FALSE, v |-> <<>>]

Some(v) == [some |-> TRUE, v |-> v]

\* json.loads: the layout of the text is not part of the value
JsonLoads(bytes) == <<"doc">> \o SubSeq(bytes, 3, Len(bytes))

\* json.dumps
JsonDumps(doc) == <<"nb", "dumps">> \o Tail(doc)

\* a cleaning that leaves every source as it finds it
_clean_json_kept(doc) == doc

\* a cell's source, a list of fragments or a string, becomes the
\* concatenation of its elements; an empty source is left as it is
_clean_json(doc) ==
    IF Len(doc) > 2 THEN <<"doc", "str">> \o SubSeq(doc, 3, Len(doc)) ELSE doc

\* Base64 text is <<"b64">> \o groups, a group being a run of characters of
\* the alphabet or "nl", a line break; the bytes are named after the groups.
\* base64.b64decode drops what is not of the alphabet; base64.b64encode
\* writes no line break.
b64decode(text) == SelectSeq(Tail(text), LAMBDA group : group # "nl")

b64encode(bytes) == <<"b64">> \o bytes

\* the decode argument that each getter hands to _get_any
Decode(type, format, bytes) ==
    IF ~ValidUtf8(bytes) /\ format \in {"json", "text"}
    THEN [ex |-> [type |-> "UnicodeDecodeError", code |-> 0, msg |-> ""], v |-> <<>>]
    ELSE IF format = "json"
    THEN IF IsNotebookJson(bytes)
         THEN [ex |-> NoEx, v |-> _clean_json(JsonLoads(bytes))]
         ELSE [ex |-> [type |-> "JSONDecodeError", code |-> 0, msg |-> ""], v |-> <<>>]
    ELSE IF format = "text"
    THEN [ex |-> NoEx, v |-> <<"str">> \o bytes]
    ELSE [ex |-> NoEx, v |-> b64encode(bytes)]

MimetypeOf(type, format) ==
    IF type = "file" /\ format = "text" THEN "text/plain"
    ELSE IF type = "file" THEN "application/octet-stream" ELSE "None"

Model(path, type, mimetype, format, content) ==
    [name |-> _final_path_component(path), path |-> path, type |-> type,
     mimetype |-> mimetype, format |-> format, content |-> content]

Raise(lg, ex) == [log |-> lg, ex |-> ex, val |-> NoneV]

_get_any(st, path, content, type, mimetype, format, lg, F) ==
    Bind(Append(lg, Req(IF content THEN "GET" ELSE "HEAD", _key(path), <<>>)), LAMBDA lg2 :
    Bind(StatusOf(st, _key(path), lg2, F), LAMBDA code :
        IF code # 200 THEN Raise(lg2, RaisedBy(code))
        ELSE IF ~content
        THEN [log |-> lg2, ex |-> NoEx,
              val |-> Model(path, type, mimetype, "None", NoneV)]
        ELSE Bind(Decode(type, format, st[_key(path)]), LAMBDA dec :
                IF dec.ex # NoEx THEN Raise(lg2, dec.ex)
                ELSE [log |-> lg2, ex |-> NoEx,
                      val |-> Model(path, type, mimetype, format, Some(dec.v))])))

\* key if (key == "" or key[-1] == "/") else (key + "/")
DirectoryPrefix(key) ==
    IF key = <<"">> \/ EndsWithSlash(key) THEN key ELSE StrCat(key, DIRECTORY_SUFFIX)

DirectoryEntry(type, key) ==
    [type |-> type, name |-> _final_path_component(key), path |-> _path(key)]

\* the content of a directory model: one entry per common prefix that is not
\* itself a listed key, then one per listed key that is no directory marker
DirectoryContent(keys, directories) ==
    Bind(SelectSeq(directories, LAMBDA d : d \notin SeqToSet(keys)), LAMBDA ds :
    Bind(SelectSeq(keys, LAMBDA k : ~EndsWithSlash(k)), LAMBDA ks :
        [i \in 1..Len(ds) |-> DirectoryEntry("directory", ds[i])]
        \o [i \in 1..Len(ks) |->
              DirectoryEntry(_type_from_path_not_directory(ks[i]), ks[i])]))

_get_directory(st, path, content, lg, F) ==
    IF ~content
    THEN [log |-> lg, ex |-> NoEx, val |-> Model(path, "directory", "None", "None", NoneV)]
    ELSE Bind(_list_immediate_child_keys_and_directories(
                  st, DirectoryPrefix(_key(path)), lg, F), LAMBDA listing :
            IF listing.ex # NoEx THEN Raise(listing.log, listing.ex)
            ELSE [log |-> listing.log, ex |-> NoEx,
                  val |-> Model(path, "directory", "None", "json",
                                Some(DirectoryContent(listing.keys, listing.dirs)))])

\* GETTERS[(type, format)](context, path, content)
GETTERS(st, type, format, path, content, lg, F) ==
    IF <<type, format>> = <<"directory", "json">>
    THEN _get_directory(st, path, content, lg, F)
    ELSE IF <<type, format>> \in {<<"notebook", "json">>, <<"file", "text">>,
                                  <<"file", "base64">>}
    THEN _get_any(st, path, content, type, MimetypeOf(type, format), format, lg, F)
    ELSE Raise(lg, [type |-> "KeyError", code |-> 0, msg |-> ""])

\* type and format are "None" where the caller passes None
_get(st, path, content, type, format, lg, F) ==
    Bind(IF type # "None" THEN [log |-> lg, ex |-> NoEx, val |-> type]
         ELSE _type_from_path(st, path, lg, F), LAMBDA t :
        IF t.ex # NoEx THEN Raise(t.log, t.ex)
        ELSE Bind(GETTERS(st, t.val,
                          IF format # "None" THEN format
                          ELSE _format_from_type_and_path(t.val, path),
                          path, content, t.log, F), LAMBDA g :
                IF g.ex.type = "HTTPClientError" /\ g.ex.code \in {403, 404}
                THEN Raise(g.log, HTTPServerError(g.ex.code, "No such file or directory"))
                ELSE g))

----------------------------------------------------------------------------
(* ExpiringDict: the per-path upload buffers *)

\* 60 * 60 * 1 seconds
UploadTtl == 3600

_remove_old_keys(mp, now) ==
    [k \in {j \in DOMAIN mp : mp[j].expires > now} |-> mp[k]]

Contains(mp, key, now) == key \in DOMAIN _remove_old_keys(mp, now)

SetItem(mp, key, value, now) ==
    LET kept == _remove_old_keys(mp, now)
    IN  [k \in (DOMAIN kept) \cup {key} |->
            IF k = key THEN [expires |-> now + UploadTtl, value |-> value] ELSE kept[k]]

\* a deletion that empties the whole dict
DelItem_all(mp, key, now) == << >>

DelItem(mp, key, now) ==
    LET kept == _remove_old_keys(mp, now)
    IN  [k \in (DOMAIN kept) \ {key} |-> kept[k]]

\* an append that puts the new segment first
AppendItem_front(mp, key, segment, now) ==
    LET kept == _remove_old_keys(mp, now)
    IN  [kept EXCEPT ![key].value = <<segment>> \o @]

\* multipart_uploads[path].append(content_bytes): the list is changed in
\* place, its expiry is not
AppendItem(mp, key, segment, now) ==
    LET kept == _remove_old_keys(mp, now)
    IN  [kept EXCEPT ![key].value = Append(@, segment)]

RECURSIVE JoinBytes(_)
\* b"".join(segments)
JoinBytes(segments) ==
    IF segments = <<>> THEN <<>> ELSE Head(segments) \o JoinBytes(Tail(segments))

KeyError == [type |-> "KeyError", code |-> 0, msg |-> ""]

----------------------------------------------------------------------------
(* The write engine; w is [store, mp]: the bucket and the upload buffers *)

\* a saved model that names the format
_saved_model_json(path, type, mimetype) == Model(path, type, mimetype, "json", NoneV)

_saved_model(path, type, mimetype) == Model(path, type, mimetype, "None", NoneV)

\* a failing write whose status is retryable (a timeout, a 5xx) may or may
\* not have been carried out by the store
Took(lg, F) == ~Fails(lg, F) \/ (F.applied /\ RetryableCode(F.code))

RaiseW(lg, ex, w) == [log |-> lg, ex |-> ex, val |-> NoneV, w |-> w]

_save_bytes(w, content_bytes, path, type, mimetype, lg, F) ==
    Bind(Append(lg, Req("PUT", _key(path), <<>>)), LAMBDA lg2 :
        [log |-> lg2,
         ex |-> IF Fails(lg2, F) THEN RaisedBy(F.code) ELSE NoEx,
         val |-> IF Fails(lg2, F) THEN NoneV ELSE _saved_model(path, type, mimetype),
         w |-> IF Took(lg2, F)
               THEN [w EXCEPT !.store = Put(w.store, _key(path), content_bytes)]
               ELSE w])

_save_chunk(w, chunk, content_bytes, path, type, mimetype, now, lg, F) ==
    Bind(IF chunk = 1 THEN SetItem(w.mp, path, <<>>, now) ELSE w.mp, LAMBDA mp1 :
        IF ~Contains(mp1, path, now)
        THEN RaiseW(lg, KeyError, [w EXCEPT !.mp = _remove_old_keys(mp1, now)])
        ELSE Bind(AppendItem(mp1, path, content_bytes, now), LAMBDA mp2 :
                IF chunk = -1
                THEN _save_bytes([w EXCEPT !.mp = DelItem(mp2, path, now)],
                                 JoinBytes(mp2[path].value), path, type, mimetype, lg, F)
                ELSE [log |-> lg, ex |-> NoEx,
                      val |-> _saved_model(path, type, mimetype),
                      w |-> [w EXCEPT !.mp = mp2]]))

\* chunk is 0 where the model holds no chunk (None)
_save_any(w, chunk, content_bytes, path, type, mimetype, now, lg, F) ==
    IF chunk = 0
    THEN _save_bytes(w, content_bytes, path, type, mimetype, lg, F)
    ELSE _save_chunk(w, chunk, content_bytes, path, type, mimetype, now, lg, F)

Encoded(bytes) == [ex |-> NoEx, bytes |-> bytes]

NotEncoded == [ex |-> [type |-> "TypeError", code |-> 0, msg |-> ""], bytes |-> <<>>]

\* the bytes each saver makes of the content before it calls _save_any
Encode(type, format, content) ==
    IF type = "directory" THEN Encoded(<<>>)
    ELSE IF format = "json"
    THEN IF ~content.some THEN Encoded(<<"null">>)
         ELSE IF Head(content.v) = "doc" THEN Encoded(JsonDumps(content.v))
         ELSE Encoded(<<"json">> \o content.v)
    ELSE IF ~content.some THEN NotEncoded
    ELSE IF format = "text" /\ Head(content.v) = "str" THEN Encoded(Tail(content.v))
    ELSE IF format = "base64" /\ Head(content.v) = "b64" THEN Encoded(b64decode(content.v))
    ELSE NotEncoded

\* SAVERS[(type, format)](context, chunk, content, path)
SAVERS(w, type, format, chunk, content, path, now, lg, F) ==
    IF <<type, format>> \notin {<<"notebook", "json">>, <<"file", "text">>,
                                <<"file", "base64">>, <<"directory", "json">>}
    THEN RaiseW(lg, KeyError, w)
    ELSE Bind(Encode(type, format, content), LAMBDA enc :
        IF enc.ex # NoEx THEN RaiseW(lg, enc.ex, w)
        ELSE Bind(_save_any(w, chunk, enc.bytes,
                            IF type = "directory" THEN StrCat(path, DIRECTORY_SUFFIX)
                            ELSE path,
                            type, MimetypeOf(type, format), now, lg, F), LAMBDA saved :
                IF type = "directory" /\ saved.ex = NoEx
                THEN [saved EXCEPT !.val = _saved_model(path, type, "None")]
                ELSE saved))

HasKey(model, field) == field \in DOMAIN model

_save(w, model, path, now, lg, F) ==
    Bind(IF HasKey(model, "type") THEN [log |-> lg, ex |-> NoEx, val |-> model.type]
         ELSE _type_from_path(w.store, path, lg, F), LAMBDA t :
        IF t.ex # NoEx THEN RaiseW(t.log, t.ex, w)
        ELSE SAVERS(w, t.val,
                    IF HasKey(model, "format") THEN model.format
                    ELSE _format_from_type_and_path(t.val, path),
                    IF HasKey(model, "chunk") THEN model.chunk ELSE 0,
                    IF HasKey(model, "content") THEN model.content ELSE NoneV,
                    path, now, t.log, F))

_copy_key(st, old_key, new_key, lg, F) ==
    Bind(Append(lg, Req("COPY", new_key, old_key)), LAMBDA lg2 :
        [log |-> lg2,
         ex |-> IF StatusOf(st, old_key, lg2, F) = 200 THEN NoEx
                ELSE RaisedBy(StatusOf(st, old_key, lg2, F)),
         store |-> IF old_key \in DOMAIN st /\ Took(lg2, F)
                   THEN Put(st, new_key, st[old_key]) ELSE st])

\* DELETE answers 204 whether or not the key exists
_delete_key(st, key, lg, F) ==
    Bind(Append(lg, Req("DELETE", key, <<>>)), LAMBDA lg2 :
        [log |-> lg2,
         ex |-> IF Fails(lg2, F) THEN RaisedBy(F.code) ELSE NoEx,
         store |-> IF Took(lg2, F) THEN Remove(st, {key}) ELSE st])

----------------------------------------------------------------------------
(* _rename, up to its first copy request *)

\* a rewriting that loses the component just below the old prefix
replace_key_prefix_short(old_key, new_key, string) ==
    new_key \o SubSeq(string, Len(old_key) + 2, Len(string))

\* new_key + string[len(old_key):], for a string that starts with old_key + "/"
replace_key_prefix(old_key, new_key, string) ==
    new_key \o SubSeq(string, Len(old_key) + 1, Len(string))

CopyOrder(object_key, renames) ==
    object_key \o Sorted(renames, [i \in 1..Len(renames) |-> _copy_sort_key(renames[i][1])])

\* a delete phase that goes through the keys as the copy phase did
DeleteOrder_as_copied(object_key, renames) == CopyOrder(object_key, renames)

DeleteOrder(object_key, renames) ==
    Sorted(renames, [i \in 1..Len(renames) |-> _delete_sort_key(renames[i][1])])
        \o object_key

Stop(lg, ex) == [log |-> lg, ex |-> ex, copies |-> <<>>, deletes |-> <<>>]

\* object_key and renames, then the two orders
RenameSet(type, old_key, new_key, keys) ==
    Bind(IF type = "directory" THEN <<>> ELSE << <<old_key, new_key>> >>,
         LAMBDA object_key :
    Bind(object_key \o [i \in 1..Len(keys) |->
                          <<keys[i], replace_key_prefix(old_key, new_key, keys[i])>>],
         LAMBDA renames :
        [copies |-> CopyOrder(object_key, renames),
         deletes |-> DeleteOrder(object_key, renames)]))

RenamePrelude(st, old_path, new_path, F) ==
    Bind(_exists(st, old_path, <<>>, F), LAMBDA src :
    IF src.ex # NoEx THEN Stop(src.log, src.ex)
    ELSE IF ~src.val THEN Stop(src.log, HTTPServerError(400, "Source does not exist"))
    ELSE Bind(_exists(st, new_path, src.log, F), LAMBDA dst :
    IF dst.ex # NoEx THEN Stop(dst.log, dst.ex)
    ELSE IF dst.val THEN Stop(dst.log, HTTPServerError(400, "Target already exists"))
    ELSE Bind(_type_from_path(st, old_path, dst.log, F), LAMBDA type :
    IF type.ex # NoEx THEN Stop(type.log, type.ex)
    ELSE Bind(_list_all_descendant_keys(
                  st, StrCat(_key(old_path), DIRECTORY_SUFFIX), type.log, F), LAMBDA desc :
    IF desc.ex # NoEx THEN Stop(desc.log, desc.ex)
    ELSE Bind(RenameSet(type.val, _key(old_path), _key(new_path), desc.keys), LAMBDA rs :
        [log |-> desc.log, ex |-> NoEx, copies |-> rs.copies, deletes |-> rs.deletes])))))

----------------------------------------------------------------------------
(* The engine's operations, one store request after another *)

Idle == [op |-> "none", pc |-> "idle", args |-> <<>>, copies |-> <<>>,
         deletes |-> <<>>, keys |-> <<>>, i |-> 0, j |-> 0, pre |-> <<>>]

NoOutcome ==
    [op |-> "none", args |-> <<>>, ex |-> NoEx, val |-> NoneV, pre |-> <<>>, at |-> 0]

\* the ways the requests numbered first..last of an operation may fail
FaultChoices(first, last) ==
    {NoFault} \cup
    IF faults < MaxFaults
    THEN {[at |-> k, code |-> c, applied |-> b] :
            k \in first..last, c \in FaultCodes, b \in BOOLEAN}
    ELSE {}

\* the history keeps, of every finished operation, its arguments, its result,
\* the bucket it started from and the monotonic time it ran at
Finish(op, args, pre, ex, val) ==
    /\ cur' = Idle
    /\ done' = Append(done, [op |-> op, args |-> args, ex |-> ex, val |-> val,
                             pre |-> pre, at |-> mono])

\* the last finished operation
outcome == IF done = <<>> THEN NoOutcome ELSE done[Len(done)]

CanStart == cur.pc = "idle" /\ nops < MaxOps

\* a rename that deletes as soon as it has copied
RenamePc_eager(copies, i, deletes, j) ==
    IF j < i THEN "delete" ELSE IF i < Len(copies) THEN "copy" ELSE "get"

\* where _rename goes after copies[1..i] and deletes[1..j] are done
RenamePc(copies, i, deletes, j) ==
    IF i < Len(copies) THEN "copy" ELSE IF j < Len(deletes) THEN "delete" ELSE "get"

\* the faults among requests first..last, given as the log without faults
FaultsIn(first, all) == FaultChoices(first, Len(all.log))

RenameStart(old_path, new_path) ==
    /\ CanStart
    /\ \E F \in FaultsIn(1, RenamePrelude(store, old_path, new_path, NoFault)) :
       \E p \in {RenamePrelude(store, old_path, new_path, F)} :
          /\ log' = p.log
          /\ faults' = faults + FaultsUsed(p.log, F)
          /\ IF p.ex # NoEx
             THEN Finish("rename", <<old_path, new_path>>, store, p.ex, NoneV)
             ELSE /\ cur' = [Idle EXCEPT !.op = "rename",
                                         !.pc = RenamePc(p.copies, 0, p.deletes, 0),
                                         !.args = <<old_path, new_path>>,
                                         !.copies = p.copies,
                                         !.deletes = p.deletes,
                                         !.pre = store]
                  /\ UNCHANGED done
    /\ nops' = nops + 1
    /\ UNCHANGED <<store, uploads, mono, netVars, lockVars>>

\* one request of an operation in progress: r is [log, ex, store]
Step(F, r, next) ==
    /\ log' = r.log
    /\ store' = r.store
    /\ faults' = faults + FaultsUsed(r.log, F)
    /\ IF r.ex # NoEx
       THEN Finish(cur.op, cur.args, cur.pre, r.ex, NoneV)
       ELSE cur' = next /\ UNCHANGED done
    /\ UNCHANGED <<uploads, mono, nops, netVars, lockVars>>

RenameCopy ==
    /\ cur.op = "rename" /\ cur.pc = "copy"
    /\ \E F \in FaultChoices(Len(log) + 1, Len(log) + 1) :
          Step(F, _copy_key(store, cur.copies[cur.i + 1][1], cur.copies[cur.i + 1][2],
                            log, F),
               [cur EXCEPT !.i = cur.i + 1,
                           !.pc = RenamePc(cur.copies, cur.i + 1, cur.deletes, cur.j)])

RenameDelete ==
    /\ cur.op = "rename" /\ cur.pc = "delete"
    /\ \E F \in FaultChoices(Len(log) + 1, Len(log) + 1) :
          Step(F, _delete_key(store, cur.deletes[cur.j + 1][1], log, F),
               [cur EXCEPT !.j = cur.j + 1,
                           !.pc = RenamePc(cur.copies, cur.i, cur.deletes, cur.j + 1)])

\* return (yield _get(context, new_path, content=False, type=None, format=None))
RenameGet ==
    /\ cur.op = "rename" /\ cur.pc = "get"
    /\ \E F \in FaultsIn(Len(log) + 1,
                         _get(store, cur.args[2], FALSE, "None", "None", log, NoFault)) :
       \E r \in {_get(store, cur.args[2], FALSE, "None", "None", log, F)} :
          /\ log' = r.log
          /\ faults' = faults + FaultsUsed(r.log, F)
          /\ Finish("rename", cur.args, cur.pre, r.ex, r.val)
    /\ UNCHANGED <<store, uploads, mono, nops, netVars, lockVars>>

----------------------------------------------------------------------------
(* _delete and _delete_keys *)

\* _delete does not wait for _type_from_path: "type" is the pending future,
\* which equals no string, and the lookups that coroutine makes on its own
\* change nothing and are not part of this sequence of requests
DeleteType == "Future"

DeleteOrderOf(keys) ==
    Sorted(keys, [i \in 1..Len(keys) |-> _delete_sort_key(keys[i])])

DeletePrelude(st, path, F) ==
    IF IsEmptyString(path)
    THEN [log |-> <<>>, ex |-> HTTPServerError(400, "Can't delete root"), keys |-> <<>>]
    ELSE Bind(_list_all_descendant_keys(st, StrCat(_key(path), DIRECTORY_SUFFIX),
                                        <<>>, F), LAMBDA desc :
            IF desc.ex # NoEx
            THEN [log |-> desc.log, ex |-> desc.ex, keys |-> <<>>]
            ELSE [log |-> desc.log, ex |-> NoEx,
                  keys |-> DeleteOrderOf(desc.keys)
                           \o (IF DeleteType = "directory" THEN <<>>
                               ELSE <<_key(path)>>)])

\* a batch request of which the store carries out the first key only
DeleteBatchRequest_first(st, chunk, strict, lg, F) ==
    Bind(Append(lg, Req("POST", chunk, <<>>)), LAMBDA lg2 :
        [log |-> lg2,
         ex |-> IF Fails(lg2, F) THEN RaisedBy(F.code) ELSE NoEx,
         store |-> IF Took(lg2, F) THEN Remove(st, {Head(chunk)}) ELSE st])

\* POST ?delete: one batch; its answer is 200 whether or not the keys exist.
\* A manifest that names the empty key is answered 400 by a store that
\* rejects it (strict) and carried out by one that does not.
DeleteBatchRequest(st, chunk, strict, lg, F) ==
    Bind(Append(lg, Req("POST", chunk, <<>>)), LAMBDA lg2 :
        IF strict /\ <<"">> \in SeqToSet(chunk) /\ ~Fails(lg2, F)
        THEN [log |-> lg2, ex |-> RaisedBy(400), store |-> st]
        ELSE [log |-> lg2,
              ex |-> IF Fails(lg2, F) THEN RaisedBy(F.code) ELSE NoEx,
              store |-> IF Took(lg2, F) THEN Remove(st, SeqToSet(chunk)) ELSE st])

DeleteStart(path) ==
    /\ CanStart
    /\ \E F \in FaultsIn(1, DeletePrelude(store, path, NoFault)) :
       \E p \in {DeletePrelude(store, path, F)} :
          /\ log' = p.log
          /\ faults' = faults + FaultsUsed(p.log, F)
          /\ IF p.ex # NoEx
             THEN Finish("delete", <<path>>, store, p.ex, NoneV)
             ELSE /\ cur' = [Idle EXCEPT !.op = "delete", !.pc = "batch",
                                         !.args = <<path>>, !.keys = p.keys,
                                         !.pre = store]
                  /\ UNCHANGED done
    /\ nops' = nops + 1
    /\ UNCHANGED <<store, uploads, mono, netVars, lockVars>>

\* batches that start one key early
BatchAt_early(keys, i) ==
    SubSeq(keys, IF i = 0 THEN 1 ELSE i, Min(i + DeleteBatchSize, Len(keys)))

\* keys[i : i + 1000]
BatchAt(keys, i) == SubSeq(keys, i + 1, Min(i + DeleteBatchSize, Len(keys)))

\* one turn of the loop of _delete_keys
DeleteBatch ==
    /\ cur.op = "delete" /\ cur.pc = "batch"
    /\ \E F \in FaultChoices(Len(log) + 1, Len(log) + 1), strict \in BOOLEAN :
          Step(F, DeleteBatchRequest(store, BatchAt(cur.keys, cur.i), strict, log, F),
               IF cur.i + DeleteBatchSize >= Len(cur.keys)
               THEN [cur EXCEPT !.pc = "return"]
               ELSE [cur EXCEPT !.i = cur.i + DeleteBatchSize])

\* _delete returns None
DeleteReturn ==
    /\ cur.op = "delete" /\ cur.pc = "return"
    /\ Finish("delete", cur.args, cur.pre, NoEx, NoneV)
    /\ UNCHANGED <<store, uploads, mono, log, faults, nops, netVars, lockVars>>

----------------------------------------------------------------------------
(* save, and the checkpoint store *)

World == [store |-> store, mp |-> uploads]

_checkpoint_path(path, checkpoint_id) == path \o <<CHECKPOINT_SUFFIX, checkpoint_id>>

\* checkpoint_id is str(int(time.time() * 1000000)), whatever the clock reads
_create_checkpoint(w, path, checkpoint_id, now, F) ==
    Bind(_get(w.store, path, TRUE, "None", "None", <<>>, F), LAMBDA m :
    IF m.ex # NoEx THEN RaiseW(m.log, m.ex, w)
    ELSE Bind(SAVERS(w, m.val.type, m.val.format, 0, m.val.content,
                     _checkpoint_path(path, checkpoint_id), now, m.log, F), LAMBDA sv :
    IF sv.ex # NoEx THEN sv
    ELSE Bind(GETTERS(sv.w.store, m.val.type, m.val.format,
                      _checkpoint_path(path, checkpoint_id), FALSE, sv.log, F), LAMBDA g :
        [log |-> g.log, ex |-> g.ex,
         val |-> IF g.ex = NoEx THEN [id |-> checkpoint_id] ELSE NoneV,
         w |-> sv.w])))

_get_model_at_checkpoint(st, type, checkpoint_id, path, lg, F) ==
    GETTERS(st, type, _format_from_type_and_path(type, path),
            _checkpoint_path(path, checkpoint_id), TRUE, lg, F)

_restore_checkpoint(w, checkpoint_id, path, now, F) ==
    Bind(_get(w.store, path, FALSE, "None", "None", <<>>, F), LAMBDA t :
    IF t.ex # NoEx THEN RaiseW(t.log, t.ex, w)
    ELSE Bind(_get_model_at_checkpoint(w.store, t.val.type, checkpoint_id, path,
                                       t.log, F), LAMBDA m :
    IF m.ex # NoEx THEN RaiseW(m.log, m.ex, w)
    ELSE Bind(_save(w, m.val, path, now, m.log, F), LAMBDA sv :
        [sv EXCEPT !.val = NoneV])))

\* an operation that runs as one step: r is what it returns, [log, ex, val, w]
Atomic(op, args, F, r) ==
    /\ CanStart
    /\ log' = r.log
    /\ store' = r.w.store
    /\ uploads' = r.w.mp
    /\ faults' = faults + FaultsUsed(r.log, F)
    /\ Finish(op, args, store, r.ex, r.val)
    /\ nops' = nops + 1
    /\ UNCHANGED <<mono, netVars, lockVars>>

Save(model, path) ==
    \E F \in FaultsIn(1, _save(World, model, path, mono, <<>>, NoFault)) :
        Atomic("save", <<path, model>>, F, _save(World, model, path, mono, <<>>, F))

CreateCheckpoint(path, checkpoint_id) ==
    \E F \in FaultsIn(1, _create_checkpoint(World, path, checkpoint_id, mono, NoFault)) :
        Atomic("create_checkpoint", <<path, checkpoint_id>>, F,
               _create_checkpoint(World, path, checkpoint_id, mono, F))

RestoreCheckpoint(checkpoint_id, path) ==
    \E F \in FaultsIn(1, _restore_checkpoint(World, checkpoint_id, path, mono, NoFault)) :
        Atomic("restore_checkpoint", <<path, checkpoint_id>>, F,
               _restore_checkpoint(World, checkpoint_id, path, mono, F))

----------------------------------------------------------------------------
(* get and dir_exists, which take no lock and change nothing *)

\* what a reading operation returns, with the world it leaves as it was
Reading(r) == [log |-> r.log, ex |-> r.ex, val |-> r.val, w |-> World]

Get(path, content, type, format) ==
    \E F \in FaultsIn(1, _get(store, path, content, type, format, <<>>, NoFault)) :
        Atomic("get", <<path, content, type, format>>, F,
               Reading(_get(store, path, content, type, format, <<>>, F)))

DirExists(path) ==
    \E F \in FaultsIn(1, _dir_exists(store, path, <<>>, NoFault)) :
        Atomic("dir_exists", <<path>>, F, Reading(_dir_exists(store, path, <<>>, F)))

----------------------------------------------------------------------------
(* copy, and the name it gives to the copy *)

\* \d
Digits == {ToString(i) : i \in 0..9}

RECURSIVE _COPY_REGEX_sub(_)
\* _COPY_REGEX.sub(".", name): each "-Copy", its digits if any and the dot
\* after them become a dot
_COPY_REGEX_sub(pieces) ==
    IF pieces = <<>> THEN <<>>
    ELSE IF Len(pieces) >= 2 /\ pieces[1] = "-Copy" /\ pieces[2] = "."
    THEN <<".">> \o _COPY_REGEX_sub(SubSeq(pieces, 3, Len(pieces)))
    ELSE IF Len(pieces) >= 3 /\ pieces[1] = "-Copy" /\ pieces[2] \in Digits
                             /\ pieces[3] = "."
    THEN <<".">> \o _COPY_REGEX_sub(SubSeq(pieces, 4, Len(pieces)))
    ELSE <<Head(pieces)>> \o _COPY_REGEX_sub(Tail(pieces))

RECURSIVE Partition(_)
\* filename.partition("."): <<basename, dot + ext>>, cut at the first dot
Partition(pieces) ==
    IF pieces = <<>> \/ Head(pieces) = "." THEN <<<<>>, pieces>>
    ELSE Bind(Partition(Tail(pieces)), LAMBDA rest :
            <<<<Head(pieces)>> \o rest[1], rest[2]>>)

\* a candidate that carries a marker from the first try on
Candidate_marked(filename, insert, i) ==
    Spelt(Partition(Pieces(filename))[1] \o <<insert, ToString(i + 1)>>
          \o Partition(Pieces(filename))[2])

\* f"{basename}{insert_i}{suffix}", insert_i being empty when i is 0
Candidate(filename, insert, i) ==
    Spelt(Partition(Pieces(filename))[1]
          \o (IF i = 0 THEN <<>> ELSE <<insert, ToString(i)>>)
          \o Partition(Pieces(filename))[2])

RECURSIVE _increment_filename(_, _, _, _, _, _, _)
\* the loop of _increment_filename from itertools.count() = i on; the first
\* call has i = 0
_increment_filename(st, filename, path, insert, i, lg, F) ==
    Bind(_exists(st, <<"">> \o path \o <<Candidate(filename, insert, i)>>, lg, F),
         LAMBDA e :
        IF e.ex # NoEx \/ ~e.val
        THEN [log |-> e.log, ex |-> e.ex, val |-> Candidate(filename, insert, i)]
        ELSE _increment_filename(st, filename, path, insert, i + 1, e.log, F))

\* the local variable to_name, read before it was ever assigned
UnboundLocalError == [type |-> "UnboundLocalError", code |-> 0, msg |-> "to_name"]

\* from_path.rsplit("/", 1)[0] if "/" in from_path else ""
FromDir(from_path) == IF Len(from_path) > 1 THEN Front(from_path) ELSE <<"">>

\* to_path is NoneV or Some(path)
_copy(w, from_path, to_path, F) ==
    Bind(_get(w.store, from_path, FALSE, "None", "None", <<>>, F), LAMBDA model :
    IF model.ex # NoEx THEN RaiseW(model.log, model.ex, w)
    ELSE IF model.val.type = "directory"
    THEN RaiseW(model.log, HTTPServerError(400, "Can't copy directories"), w)
    ELSE Bind(IF to_path.some THEN to_path.v ELSE FromDir(from_path), LAMBDA to_dir :
         Bind(_dir_exists(w.store, to_dir, model.log, F), LAMBDA d :
    IF d.ex # NoEx THEN RaiseW(d.log, d.ex, w)
    ELSE Bind(IF d.val
              THEN _increment_filename(
                       w.store, Spelt(_COPY_REGEX_sub(Pieces(Last(from_path)))),
                       to_dir, "-Copy", 0, d.log, F)
              ELSE [log |-> d.log, ex |-> NoEx, val |-> ""], LAMBDA to_name :
    IF to_name.ex # NoEx THEN RaiseW(to_name.log, to_name.ex, w)
    ELSE Bind(IF d.val THEN to_dir \o <<to_name.val>> ELSE to_dir, LAMBDA to :
         Bind(_copy_key(w.store, _key(from_path), _key(to), to_name.log, F), LAMBDA c :
    IF c.ex # NoEx THEN RaiseW(c.log, c.ex, [w EXCEPT !.store = c.store])
    ELSE IF ~d.val THEN RaiseW(c.log, UnboundLocalError, [w EXCEPT !.store = c.store])
    ELSE [log |-> c.log, ex |-> NoEx,
          val |-> [model.val EXCEPT !.name = to_name.val, !.path = to],
          w |-> [w EXCEPT !.store = c.store]]))))))

Copy(from_path, to_path) ==
    /\ CanStart
    /\ \E F \in FaultsIn(1, _copy(World, from_path, to_path, NoFault)) :
        Atomic("copy", <<from_path, to_path>>, F, _copy(World, from_path, to_path, F))

----------------------------------------------------------------------------
(* _fetch_with_retry: the attempts of one logical store request *)

\* stop_after_attempt(4)
StopAfterAttempt == 4

Response(code) == [type |-> "response", code |-> code, msg |-> ""]

TimeoutError == [type |-> "TimeoutError", code |-> 0, msg |-> ""]

\* an exception of the transport that is neither of the two
OSError == [type |-> "OSError", code |-> 0, msg |-> ""]

\* how one HTTP_CLIENT.fetch may end: a response, or an exception
FetchOutcomes ==
    {Response(200), TimeoutError, OSError}
        \cup {HTTPClientError(code) : code \in {400, 403, 404, 429, 500, 503, 599}}

\* a predicate that also retries what the store answers for a missing key
_retryable_and_404(exc) ==
    IF exc.type = "HTTPClientError"
    THEN RetryableCode(exc.code) \/ exc.code = 404
    ELSE exc.type = "TimeoutError"

_retryable(exc) ==
    IF exc.type = "HTTPClientError"
    THEN RetryableCode(exc.code)
    ELSE exc.type = "TimeoutError"

NoFetch == [state |-> "none", attempts |-> <<>>, ex |-> NoEx]

\* the state of the retrying call after its attempts ended as `attempts` say
AfterAttempt(attempts) ==
    IF Last(attempts).type = "response"
    THEN [state |-> "returned", attempts |-> attempts, ex |-> NoEx]
    ELSE IF ~_retryable(Last(attempts))
    THEN [state |-> "raised", attempts |-> attempts, ex |-> Last(attempts)]
    ELSE IF Len(attempts) >= StopAfterAttempt
    THEN [state |-> "raised", attempts |-> attempts,
          ex |-> RetryError(Last(attempts).code)]
    ELSE [state |-> "sleep", attempts |-> attempts, ex |-> NoEx]

\* one attempt: response = yield HTTP_CLIENT.fetch(request)
Fetch(o) ==
    /\ fetch.state = "attempt"
    /\ fetch' = AfterAttempt(Append(fetch.attempts, o))
    /\ UNCHANGED <<engineVars, pager, auth, lockVars>>

\* the wait between two attempts is over
Backoff ==
    /\ fetch.state = "sleep"
    /\ fetch' = [fetch EXCEPT !.state = "attempt"]
    /\ UNCHANGED <<engineVars, pager, auth, lockVars>>

----------------------------------------------------------------------------
(* _list_keys: one listing, page after page *)

\* max-keys: 1000 in the source, scaled down
PageSize == 2

\* entries that the listing of the model has at most
MaxEntries == 4

\* the continuation token that stands for "n entries served"; "" is <<>>
Token(n) == <<n>>

Key(n) == <<"key", n>>

Prefix(n) == <<"prefix", n>>

\* the listings the store may hold: n entries, each a key or a common prefix
Listings ==
    UNION {[1..n -> {"key", "prefix"}] : n \in 0..MaxEntries}

NoPager == [state |-> "none", listing |-> <<>>, sent |-> <<>>, received |-> <<>>,
            token |-> <<>>, keys |-> <<>>, directories |-> <<>>]

\* what _parse_list_response makes of the page that holds the entries
\* from + 1 .. to of the listing: (next_token, keys, directories)
_parse_list_response(listing, from, to) ==
    [token |-> IF to < Len(listing) THEN Token(to) ELSE <<>>,
     keys |-> SelectSeq([i \in 1..(to - from) |->
                            IF listing[from + i] = "key" THEN Key(from + i) ELSE <<>>],
                        LAMBDA e : e # <<>>),
     directories |-> SelectSeq([i \in 1..(to - from) |->
                            IF listing[from + i] = "prefix" THEN Prefix(from + i) ELSE <<>>],
                        LAMBDA e : e # <<>>)]

\* the entries served before the request that carries token
ServedBy(token) == IF token = <<>> THEN 0 ELSE token[1]

\* the pages a store may answer a request with: at most max-keys entries
\* from where the token points, at least one when any is left
PagesFor(listing, token) ==
    {_parse_list_response(listing, ServedBy(token), to) :
        to \in {t \in ServedBy(token)..Min(ServedBy(token) + PageSize, Len(listing)) :
                  t > ServedBy(token) \/ t = Len(listing)}}

\* a loop that keeps the last page only
extend_last(list, page) == page

\* list.extend(page)
extend(list, page) == list \o page

\* token, keys, directories = yield _list_first_page()
ListFirstPage ==
    /\ pager.state = "first"
    /\ \E page \in PagesFor(pager.listing, <<>>) :
          pager' = [pager EXCEPT !.state = "loop",
                                 !.sent = Append(@, [prefix |-> TRUE, token |-> <<>>]),
                                 !.received = Append(@, page),
                                 !.token = page.token,
                                 !.keys = page.keys,
                                 !.directories = page.directories]
    /\ UNCHANGED <<engineVars, fetch, auth, lockVars>>

\* while token: one turn of the loop
ListLaterPage ==
    /\ pager.state = "loop"
    /\ pager.token # <<>>
    /\ \E page \in PagesFor(pager.listing, pager.token) :
          pager' = [pager EXCEPT !.sent = Append(@, [prefix |-> FALSE,
                                                     token |-> pager.token]),
                                 !.received = Append(@, page),
                                 !.token = page.token,
                                 !.keys = extend(@, page.keys),
                                 !.directories = extend(@, page.directories)]
    /\ UNCHANGED <<engineVars, fetch, auth, lockVars>>

\* return keys, directories
ListReturn ==
    /\ pager.state = "loop"
    /\ pager.token = <<>>
    /\ pager' = [pager EXCEPT !.state = "returned"]
    /\ UNCHANGED <<engineVars, fetch, auth, lockVars>>

----------------------------------------------------------------------------
(* The manager's mutating methods and write_lock *)

Callers == {"A", "B"}

\* the methods whose body runs under "with (yield self.write_lock.acquire())"
LockedMethods ==
    {"save", "delete", "update", "new_untitled", "new", "copy",
     "create_checkpoint", "restore_checkpoint", "delete_checkpoint"}

\* store requests that the body of one call issues at most, one after another
MaxRequests == 2

\* the requests of _type_from_path: HEAD of the marker, then a listing
TypeRequests == 2

\* `waited` tells whether the call had to wait for the lock
NoCall == [method |-> "none", pc |-> "none", left |-> 0, lookup |-> 0, waited |-> FALSE]

NoCalls == [c \in Callers |-> NoCall]

FreeLock == [holder |-> "none", waiters |-> <<>>]

\* a call of a mutating method, up to its "yield self.write_lock.acquire()":
\* it holds the lock at once when the lock is free and waits in line when not;
\* `left` is the number of store requests its body will issue
Call(c, method, left) ==
    /\ calls[c].pc = "none"
    /\ IF lock.holder = "none"
       THEN /\ lock' = [lock EXCEPT !.holder = c]
            /\ calls' = [calls EXCEPT ![c] = [method |-> method, pc |-> "enter",
                                              left |-> left, lookup |-> 0,
                                              waited |-> FALSE]]
       ELSE /\ lock' = [lock EXCEPT !.waiters = Append(@, c)]
            /\ calls' = [calls EXCEPT ![c] = [method |-> method, pc |-> "waiting",
                                              left |-> left, lookup |-> 0,
                                              waited |-> TRUE]]
    /\ UNCHANGED <<engineVars, netVars, wire>>

\* the body starts.  _delete calls _type_from_path and does not wait for it:
\* that coroutine issues its first request at once (none for a notebook's
\* path) and goes on by itself, whatever becomes of the call
Enter(c) ==
    /\ calls[c].pc = "enter"
    /\ IF calls[c].method = "delete" /\ calls[c].left > 0
       THEN \E n \in 0..TypeRequests :
               /\ calls' = [calls EXCEPT ![c].pc = "body",
                                         ![c].lookup = IF n = 0 THEN 0 ELSE n - 1]
               /\ wire' = IF n = 0 THEN wire
                          ELSE Append(wire, [by |-> c, detached |-> TRUE])
       ELSE /\ calls' = [calls EXCEPT ![c].pc = "body"]
            /\ UNCHANGED wire
    /\ UNCHANGED <<engineVars, netVars, lock>>

\* the body issues its next store request and waits for the answer, which
\* is a success or an exception that ends the body
Request(c) ==
    /\ calls[c].pc = "body"
    /\ calls[c].left > 0
    /\ wire' = Append(wire, [by |-> c, detached |-> FALSE])
    /\ \E ok \in BOOLEAN :
          calls' = [calls EXCEPT ![c].left = IF ok THEN @ - 1 ELSE 0]
    /\ UNCHANGED <<engineVars, netVars, lock>>

\* the next request of a _type_from_path that nothing waits for
DetachedRequest(c) ==
    /\ calls[c].lookup > 0
    /\ wire' = Append(wire, [by |-> c, detached |-> TRUE])
    /\ calls' = [calls EXCEPT ![c].lookup = @ - 1]
    /\ UNCHANGED <<engineVars, netVars, lock>>

\* a release that does not wake the callers in line
Release_unheard(c) ==
    /\ calls[c].pc = "body"
    /\ calls[c].left = 0
    /\ lock' = [lock EXCEPT !.holder = "none"]
    /\ calls' = [calls EXCEPT ![c].pc = "done"]
    /\ UNCHANGED <<engineVars, netVars, wire>>

\* the body has returned or raised: the with block releases the lock, which
\* goes to the caller that has waited longest
Release(c) ==
    /\ calls[c].pc = "body"
    /\ calls[c].left = 0
    /\ IF lock.waiters = <<>>
       THEN /\ lock' = FreeLock
            /\ calls' = [calls EXCEPT ![c].pc = "done"]
       ELSE /\ lock' = [holder |-> Head(lock.waiters), waiters |-> Tail(lock.waiters)]
            /\ calls' = [calls EXCEPT ![c].pc = "done",
                                      ![Head(lock.waiters)].pc = "enter"]
    /\ UNCHANGED <<engineVars, netVars, wire>>

----------------------------------------------------------------------------
(* JupyterS3ECSRoleAuthentication: credentials that refresh themselves *)

\* the latest wall-clock time of a behaviour, in ticks
MaxNow == 2
\* requests to the metadata endpoint in one behaviour
MaxFetches == 3

NoAsk == [pc |-> "none", got |-> 0, at |-> 0]

\* The traits of the instance as constructed: blank keys (key 0) and an
\* expiration in the past (1900-01-01).  A set of credentials is named by its
\* place in `issued`, which keeps the Expiration the endpoint gave with it.
NoAuth ==
    [now |-> 0, expiration |-> -1, key |-> 0, fetches |-> 0, issued |-> <<>>,
     asks |-> [c \in Callers |-> NoAsk]]

\* AwsCreds(self.aws_access_key_id, self.aws_secret_access_key,
\* self.pre_auth_headers)
AwsCreds(a) == a.key

\* credentials = yield context.s3_auth(), up to the yield of the fetch: the
\* caller of a store request is given the cached credentials when they have
\* not expired, and sends a request to the metadata endpoint when they have
get_credentials(c) ==
    /\ auth.asks[c].pc # "fetching"
    /\ IF auth.now > auth.expiration
       THEN /\ auth.fetches < MaxFetches
            /\ auth' = [auth EXCEPT !.fetches = @ + 1,
                                    !.asks[c] = [pc |-> "fetching", got |-> 0,
                                                 at |-> auth.now]]
       ELSE auth' = [auth EXCEPT !.asks[c] = [pc |-> "returned", got |-> AwsCreds(auth),
                                              at |-> auth.now]]
    /\ UNCHANGED <<engineVars, fetch, pager, lockVars>>

\* the endpoint answers with new credentials and their Expiration: the
\* traits are assigned and the caller is given the new credentials
Refreshed(c) ==
    /\ auth.asks[c].pc = "fetching"
    /\ \E expiration \in auth.now..MaxNow :
          \E a \in {[auth EXCEPT !.issued = Append(@, expiration),
                                 !.key = Len(auth.issued) + 1,
                                 !.expiration = expiration]} :
              auth' = [a EXCEPT !.asks[c] = [pc |-> "returned", got |-> AwsCreds(a),
                                             at |-> auth.now]]
    /\ UNCHANGED <<engineVars, fetch, pager, lockVars>>

\* the fetch raises: get_credentials raises and assigns nothing
RefreshFailed(c) ==
    /\ auth.asks[c].pc = "fetching"
    /\ auth' = [auth EXCEPT !.asks[c] = [pc |-> "raised", got |-> 0, at |-> auth.now]]
    /\ UNCHANGED <<engineVars, fetch, pager, lockVars>>

\* datetime.datetime.now() moves on
Clock ==
    /\ auth.now < MaxNow
    /\ auth' = [auth EXCEPT !.now = @ + 1]
    /\ UNCHANGED <<engineVars, fetch, pager, lockVars>>

----------------------------------------------------------------------------
(* The engine, driven by one caller *)

\* objects that may be in the bucket at the start, written by this engine or
\* by another client of the bucket
InitObjects ==
    [k \in {<<"a", "">>, <<"a", "t.txt">>, <<"a", "b", "">>, <<"a", "b", "n.ipynb">>,
            <<"t.txt">>, <<"n.ipynb">>} |->
        IF k = <<"a", "t.txt">> THEN <<"x">>
        ELSE IF k = <<"t.txt">> THEN <<"w">>
        ELSE IF k = <<"a", "b", "n.ipynb">> THEN <<"nb", "dumps", "str", "p", "q">>
        ELSE IF k = <<"n.ipynb">> THEN <<"nb", "indented", "list", "p", "q">>
        ELSE <<>>]

InitStores == {[k \in S |-> InitObjects[k]] : S \in SUBSET DOMAIN InitObjects}

RenameFrom == {<<"a">>, <<"", "a", "b">>, <<"t.txt">>, <<"n.ipynb">>, <<"c">>}

RenameTo == {<<"c">>, <<"a", "c">>, <<"", "a">>, <<"t.txt">>}

DeletePaths == {<<"">>, <<"", "">>, <<"a">>, <<"", "a", "b">>, <<"t.txt">>, <<"c">>}

SaveRequests ==
    {<<[type |-> "file", format |-> "text", content |-> Some(<<"str", "y">>)], <<"t.txt">>>>,
     <<[type |-> "notebook", format |-> "json",
        content |-> Some(<<"doc", "list", "r", "s">>)], <<"n.ipynb">>>>,
     <<[type |-> "file", format |-> "base64", content |-> Some(<<"b64", "z">>)],
       <<"a", "c">>>>,
     <<[type |-> "directory"], <<"c">>>>}

CheckpointPaths == {<<"t.txt">>, <<"n.ipynb">>, <<"a", "c">>}

CheckpointIds == {"1", "2"}

\* the state after construction, with room for `ops` operations of which
\* `failing` store requests may fail
EngineInit(stores, ops, failing) ==
    /\ store \in stores
    /\ uploads = <<>>
    /\ mono = 0
    /\ cur = Idle
    /\ log = <<>>
    /\ done = <<>>
    /\ faults = MaxFaults - failing
    /\ nops = MaxOps - ops

\* an engine that is asked nothing
EngineIdle == EngineInit({<<>>}, 0, 0)

\* no request being retried, no listing under way, no credentials asked for
NetIdle == fetch = NoFetch /\ pager = NoPager /\ auth = NoAuth

\* no call of a mutating method yet
LockIdle == calls = NoCalls /\ lock = FreeLock /\ wire = <<>>

Rename ==
    \/ \E old_path \in RenameFrom, new_path \in RenameTo : RenameStart(old_path, new_path)
    \/ RenameCopy
    \/ RenameDelete
    \/ RenameGet

Delete ==
    \/ \E path \in DeletePaths : DeleteStart(path)
    \/ DeleteBatch
    \/ DeleteReturn

\* buckets with several keys of one depth and kind: two files in a
\* directory, two checkpoints of a notebook
TieStores ==
    {[k \in {<<"a", "">>, <<"a", "n.ipynb">>, <<"a", "t.txt">>} |->
        IF k = <<"a", "t.txt">> THEN <<"x">>
        ELSE IF k = <<"a", "n.ipynb">> THEN <<"nb", "dumps", "str", "p", "q">>
        ELSE <<>>],
     [k \in {<<"n.ipynb">>, <<"n.ipynb", ".checkpoints", "1">>,
             <<"n.ipynb", ".checkpoints", "2">>} |->
        IF k = <<"n.ipynb">> THEN <<"nb", "dumps", "str", "p", "q">>
        ELSE <<"nb", "dumps", "str", "p">>]}

\* one rename or one delete, on any bucket, with failing store requests
Init == EngineInit(InitStores \cup TieStores, 1, MaxFaults) /\ NetIdle /\ LockIdle

Next == Rename \/ Delete

Spec == Init /\ [][Next]_vars

\* one rename or one delete on a bucket whose entries have names that begin
\* alike: a directory "a" next to a file "ab" and a directory "ab", or a file
\* "a" next to them
SiblingObjects ==
    [k \in {<<"a">>, <<"a", "">>, <<"a", "t.txt">>, <<"ab">>, <<"ab", "t.txt">>} |->
        IF k = <<"a">> THEN <<"u">>
        ELSE IF k = <<"a", "t.txt">> THEN <<"x">>
        ELSE IF k = <<"ab">> THEN <<"v">>
        ELSE IF k = <<"ab", "t.txt">> THEN <<"w">>
        ELSE <<>>]

SiblingStores == {[k \in S |-> SiblingObjects[k]] : S \in SUBSET DOMAIN SiblingObjects}

SiblingPaths == {<<"a">>, <<"", "a">>, <<"ab">>, <<"c">>}

SiblingInit == EngineInit(SiblingStores, 1, MaxFaults) /\ NetIdle /\ LockIdle

SiblingNext ==
    \/ \E old_path \in SiblingPaths, new_path \in SiblingPaths :
          RenameStart(old_path, new_path)
    \/ RenameCopy
    \/ RenameDelete
    \/ RenameGet
    \/ \E path \in SiblingPaths : DeleteStart(path)
    \/ DeleteBatch
    \/ DeleteReturn

SpecSibling == SiblingInit /\ [][SiblingNext]_vars

\* two deletes, one after the other, of which one store request may fail
RedeleteInit == EngineInit(InitStores, 2, 1) /\ NetIdle /\ LockIdle

SpecRedelete == RedeleteInit /\ [][Delete]_vars

\* create_checkpoint, save and restore_checkpoint in any order; no request fails
CheckpointStores == {st \in InitStores : DOMAIN st \subseteq {<<"t.txt">>, <<"n.ipynb">>}}

CheckpointInit == EngineInit(CheckpointStores, MaxOps, 0) /\ NetIdle /\ LockIdle

CheckpointNext ==
    \/ \E sr \in SaveRequests : Save(sr[1], sr[2])
    \/ \E path \in CheckpointPaths, id \in CheckpointIds : CreateCheckpoint(path, id)
    \/ \E path \in CheckpointPaths, id \in CheckpointIds : RestoreCheckpoint(id, path)

SpecCheckpoint == CheckpointInit /\ [][CheckpointNext]_vars

\* create_checkpoint and rename, one after the other in either order, of
\* which one store request may fail
MoveInit == EngineInit(CheckpointStores, 2, 1) /\ NetIdle /\ LockIdle

MoveNext ==
    \/ Rename
    \/ \E path \in CheckpointPaths, id \in CheckpointIds : CreateCheckpoint(path, id)

SpecMove == MoveInit /\ [][MoveNext]_vars

\* two of save, get and dir_exists, of which one store request may fail
ReadObjects ==
    [k \in {<<"a", "">>, <<"a", "b", "n.ipynb">>, <<"t.txt">>,
            <<"t.txt", ".checkpoints", "1">>} |->
        IF k = <<"t.txt">> THEN <<"w">>
        ELSE IF k = <<"t.txt", ".checkpoints", "1">> THEN <<"u">>
        ELSE IF k = <<"a", "b", "n.ipynb">> THEN <<"nb", "dumps", "str", "p", "q">>
        ELSE <<>>]

ReadStores == {[k \in S |-> ReadObjects[k]] : S \in SUBSET DOMAIN ReadObjects}

ReadSaves ==
    SaveRequests \cup
    {<<[type |-> "notebook", format |-> "json",
        content |-> Some(<<"doc", "str", "r", "s">>)], <<"n.ipynb">>>>,
     <<[type |-> "file", format |-> "base64", content |-> Some(<<"b64", "z", "nl">>)],
       <<"a", "c">>>>}

\* <<path, content, type, format>>
GetRequests ==
    {<<<<"t.txt">>, TRUE, "file", "text">>, <<<<"t.txt">>, TRUE, "None", "None">>,
     <<<<"t.txt">>, FALSE, "None", "None">>,
     <<<<"n.ipynb">>, TRUE, "notebook", "json">>, <<<<"n.ipynb">>, TRUE, "None", "None">>,
     <<<<"a", "c">>, TRUE, "file", "base64">>, <<<<"a", "c">>, FALSE, "None", "None">>,
     <<<<"c">>, TRUE, "directory", "json">>, <<<<"c">>, TRUE, "None", "None">>,
     <<<<"a">>, TRUE, "None", "None">>, <<<<"a">>, FALSE, "None", "None">>,
     <<<<"">>, TRUE, "None", "None">>}

DirExistsPaths == {<<"">>, <<"", "">>, <<"a">>, <<"", "a", "b">>, <<"c">>, <<"t.txt">>}

ReadInit == EngineInit(ReadStores, 2, 1) /\ NetIdle /\ LockIdle

ReadNext ==
    \/ \E sr \in ReadSaves : Save(sr[1], sr[2])
    \/ \E g \in GetRequests : Get(g[1], g[2], g[3], g[4])
    \/ \E path \in DirExistsPaths : DirExists(path)

SpecRead == ReadInit /\ [][ReadNext]_vars

\* two copies, one after the other, of which one store request may fail
CopyObjects ==
    [k \in {<<"a", "">>, <<"a", "t.txt">>, <<"t.txt">>, <<"t-Copy1.txt">>,
            <<"n.ipynb">>} |->
        IF k = <<"a", "t.txt">> THEN <<"x">>
        ELSE IF k = <<"t.txt">> THEN <<"w">>
        ELSE IF k = <<"t-Copy1.txt">> THEN <<"v">>
        ELSE IF k = <<"n.ipynb">> THEN <<"nb", "indented", "list", "p", "q">>
        ELSE <<>>]

\* the directory "a" is there in every bucket
CopyStores ==
    {[k \in S \cup {<<"a", "">>} |-> CopyObjects[k]] : S \in SUBSET DOMAIN CopyObjects}

CopyFrom == {<<"t.txt">>, <<"t-Copy1.txt">>, <<"a", "t.txt">>, <<"n.ipynb">>, <<"a">>}

\* no to_path, the root, the directory a, a path where nothing is, and the
\* path of a file
CopyTo == {NoneV, Some(<<"">>), Some(<<"a">>), Some(<<"c">>), Some(<<"t.txt">>)}

CopyInit == EngineInit(CopyStores, 2, 1) /\ NetIdle /\ LockIdle

CopyNext == \E from_path \in CopyFrom, to_path \in CopyTo : Copy(from_path, to_path)

SpecCopy == CopyInit /\ [][CopyNext]_vars

\* time passes: half the life of an upload buffer at a time
MaxTicks == 2

Tick ==
    /\ cur.pc = "idle"
    /\ mono < MaxTicks * (UploadTtl \div 2)
    /\ mono' = mono + (UploadTtl \div 2)
    /\ UNCHANGED <<store, uploads, cur, log, done, faults, nops, netVars, lockVars>>

\* the two paths that are uploaded in chunks, each with the payloads of its
\* chunk 1, of every chunk between and of chunk -1
ChunkUploads ==
    {<<(<<"t.txt">>), <<"a", "b", "c">> >>, <<(<<"a", "c">>), <<"x", "y", "z">> >>}

ChunkPaths == {up[1] : up \in ChunkUploads}

ChunkRequests ==
    {<<[type |-> "file", format |-> "text", chunk |-> sr[1],
        content |-> Some(<<"str", up[2][sr[2]]>>)], up[1]>> :
        sr \in {<<1, 1>>, <<2, 2>>, <<-1, 3>>}, up \in ChunkUploads}

\* saves in chunks to two paths, in any order and any time apart, with
\* failing store requests
ChunkInit == EngineInit({<<>>}, MaxOps, MaxFaults) /\ NetIdle /\ LockIdle

ChunkNext ==
    \/ \E sr \in ChunkRequests : Save(sr[1], sr[2])
    \/ Tick

SpecChunk == ChunkInit /\ [][ChunkNext]_vars

\* one operation that returns an entry record: a get, a save (whole or a
\* chunk), a rename or a copy, on any bucket, with failing store requests
EntryInit == EngineInit(InitStores, 1, MaxFaults) /\ NetIdle /\ LockIdle

EntryNext ==
    \/ \E g \in GetRequests : Get(g[1], g[2], g[3], g[4])
    \/ \E sr \in ReadSaves \cup ChunkRequests : Save(sr[1], sr[2])
    \/ Rename
    \/ \E from_path \in CopyFrom, to_path \in CopyTo : Copy(from_path, to_path)

SpecEntry == EntryInit /\ [][EntryNext]_vars

\* one logical store request, from its first attempt on
RetryInit ==
    /\ EngineIdle
    /\ fetch = [NoFetch EXCEPT !.state = "attempt"]
    /\ pager = NoPager
    /\ auth = NoAuth
    /\ LockIdle

RetryNext ==
    \/ \E o \in FetchOutcomes : Fetch(o)
    \/ Backoff

SpecRetry == RetryInit /\ [][RetryNext]_vars

\* one listing of any bucket, which the store serves in pages of its choosing
ListInit ==
    /\ EngineIdle
    /\ fetch = NoFetch
    /\ pager \in {[NoPager EXCEPT !.state = "first", !.listing = l] : l \in Listings}
    /\ auth = NoAuth
    /\ LockIdle

ListNext ==
    \/ ListFirstPage
    \/ ListLaterPage
    \/ ListReturn

SpecList == ListInit /\ [][ListNext]_vars

\* the callers call one mutating method each, at any time
LockInit == EngineIdle /\ NetIdle /\ LockIdle

LockNext ==
    \/ \E c \in Callers, method \in LockedMethods, left \in 0..MaxRequests :
          Call(c, method, left)
    \/ \E c \in Callers : Enter(c)
    \/ \E c \in Callers : Request(c)
    \/ \E c \in Callers : DetachedRequest(c)
    \/ \E c \in Callers : Release(c)

SpecLock == LockInit /\ [][LockNext]_vars

\* the same, where the event loop goes on running every coroutine that can
\* run and every store request is answered, by a response or by an error
LockFairness ==
    \A c \in Callers :
        /\ WF_vars(Enter(c))
        /\ WF_vars(Request(c))
        /\ WF_vars(Release(c))

SpecLockFair == LockInit /\ [][LockNext]_vars /\ LockFairness

\* the callers' store requests ask for credentials, at any time
AuthInit == EngineIdle /\ NetIdle /\ LockIdle

AuthNext ==
    \/ \E c \in Callers : get_credentials(c)
    \/ \E c \in Callers : Refreshed(c)
    \/ \E c \in Callers : RefreshFailed(c)
    \/ Clock

SpecAuth == AuthInit /\ [][AuthNext]_vars

----------------------------------------------------------------------------
(* Properties of rename *)

\* the rename in progress, or else the last finished operation
this == IF cur.op # "none" THEN [op |-> cur.op, args |-> cur.args, pre |-> cur.pre]
        ELSE [op |-> outcome.op, args |-> outcome.args, pre |-> outcome.pre]

Finished(op) == cur.pc = "idle" /\ outcome.op = op

Completed(op) == Finished(op) /\ outcome.ex = NoEx

Failed(op) == Finished(op) /\ outcome.ex # NoEx

\* the keys of bucket st below key + "/"
Under(st, key) == {k \in DOMAIN st : StartsWith(k, Append(key, ""))}

\* key with its prefix old_key replaced by new_key
Rewritten(old_key, new_key, key) ==
    new_key \o SubSeq(key, Len(old_key) + 1, Len(key))

OldKey == _key(this.args[1])

NewKey == _key(this.args[2])

\* the rename is of a directory: a name that is no notebook's, no object at
\* the old key, N >= 1 keys below it
RenamesDirectory ==
    /\ this.op = "rename"
    /\ ~EndsWithIpynb(Last(OldKey))
    /\ OldKey \notin DOMAIN this.pre
    /\ Under(this.pre, OldKey) # {}

\* the N contents are where the rename should have put them
AllMoved ==
    /\ Under(store, NewKey) = {Rewritten(OldKey, NewKey, k) : k \in Under(this.pre, OldKey)}
    /\ \A k \in Under(this.pre, OldKey) :
          store[Rewritten(OldKey, NewKey, k)] = this.pre[k]

\* no content is lost: each is at its old key or at its rewritten key
NoneLost ==
    \A k \in Under(this.pre, OldKey) :
        \/ k \in DOMAIN store /\ store[k] = this.pre[k]
        \/ /\ Rewritten(OldKey, NewKey, k) \in DOMAIN store
           /\ store[Rewritten(OldKey, NewKey, k)] = this.pre[k]

\* C1 as the specification states it: a completed rename of a directory
\* leaves exactly the N rewritten keys under the new prefix and no key under
\* the old prefix; a failed one leaves every content at its old or at its
\* rewritten key.
C1_AsStated ==
    RenamesDirectory =>
        /\ Completed("rename") => AllMoved /\ Under(store, OldKey) = {}
        /\ Failed("rename") => NoneLost

\* C1: for a rename of a directory of N keys, with store requests failing
\* anywhere in the sequence: when it completes, exactly the N rewritten keys,
\* with the N contents, are under the new prefix, and the only keys left
\* under the old prefix are those N keys themselves, which happens when the
\* new path lies inside the old directory; when it fails, every content is at
\* its old key or at its rewritten key.
C1_RenameDirectory ==
    RenamesDirectory =>
        /\ Completed("rename") =>
              /\ AllMoved
              /\ Under(store, OldKey) \subseteq Under(store, NewKey)
              /\ StartsWith(NewKey, Append(OldKey, "")) \/ Under(store, OldKey) = {}
        /\ Failed("rename") => NoneLost

\* a directory of three keys or more has been renamed to a path outside it,
\* and all its requests succeeded
C1_Witness ==
    /\ RenamesDirectory
    /\ Completed("rename")
    /\ Cardinality(Under(outcome.pre, OldKey)) >= 3
    /\ ~StartsWith(NewKey, Append(OldKey, ""))
    /\ Under(store, OldKey) = {}

\* the keys the rename copies and then deletes
Sources ==
    Under(this.pre, OldKey) \cup (IF RenamesDirectory THEN {} ELSE {OldKey} \cap DOMAIN this.pre)

\* one step of a rename, seen from the requests it adds to the log
C2_Step ==
    /\ (cur.op = "rename" /\ Len(log') > Len(log) /\ Last(log').m = "DELETE") =>
          \A k \in Sources :
             /\ \E c \in 1..Len(log) : log[c] = Req("COPY", Rewritten(OldKey, NewKey, k), k)
             /\ (\A d \in 1..Len(log) : log[d].m # "DELETE") =>
                   /\ Rewritten(OldKey, NewKey, k) \in DOMAIN store
                   /\ store[Rewritten(OldKey, NewKey, k)] = this.pre[k]
    /\ (cur.op = "rename" /\ Len(log') > Len(log) /\ Last(log').m = "COPY"
          /\ cur'.pc = "idle") =>
          /\ \A d \in 1..Len(log') : log'[d].m # "DELETE"
          /\ \A k \in Sources : k \in DOMAIN store' /\ store'[k] = this.pre[k]

\* C2: in a rename, a delete request is issued only after a copy request for
\* every key of the rename set has been issued, and the first delete request
\* only when every copy is in place; and a rename that a failing copy ends
\* has issued no delete request, every key of the rename set being still
\* present with its content.
C2_CopiesBeforeDeletes == [][C2_Step]_vars

\* a rename of two keys or more has been ended by its second or a later copy
C2_Witness ==
    /\ Failed("rename")
    /\ Cardinality(Sources) >= 2
    /\ Last(log).m = "COPY"
    /\ Cardinality({c \in 1..Len(log) : log[c].m = "COPY"}) >= 2

\* something exists at key in bucket st: an object, or a directory
ExistsAt(st, key) == key \in DOMAIN st \/ Under(st, key) # {}

C4_Conflict ==
    \/ ~ExistsAt(this.pre, OldKey)
    \/ ExistsAt(this.pre, NewKey)

----------------------------------------------------------------------------
(* Properties of delete *)

\* C8 as the specification states it: a delete of a path at which nothing
\* exists, none of whose requests is answered with an error, ends with a
\* NotFound error.
C8_DeleteAbsent ==
    (Finished("delete") /\ faults = 0 /\ ~_is_root(outcome.args[1])
       /\ ~ExistsAt(outcome.pre, _key(outcome.args[1]))) =>
        outcome.ex.code = 404

\* C9 as the specification states it: a delete of "" or of "/" issues no
\* store request and fails with HTTPServerError 400, the bucket unchanged.
C9_DeleteRoot ==
    (this.op = "delete" /\ _is_root(this.args[1])) =>
        /\ log = <<>>
        /\ Failed("delete")
        /\ outcome.ex = HTTPServerError(400, "Can't delete root")
        /\ store = this.pre

----------------------------------------------------------------------------
(* Properties of checkpoints *)

\* the bucket after the i-th finished operation
After(i) == IF i = Len(done) THEN store ELSE done[i + 1].pre

\* done[i], done[i + 1] and done[i + 2] are a create_checkpoint, a save and a
\* restore_checkpoint of that checkpoint, on one path, each without error
CheckpointRoundTrip(i) ==
    /\ i + 2 <= Len(done)
    /\ done[i].op = "create_checkpoint" /\ done[i].ex = NoEx
    /\ done[i + 1].op = "save" /\ done[i + 1].ex = NoEx
    /\ done[i + 1].args[1] = done[i].args[1]
    /\ done[i + 2].op = "restore_checkpoint" /\ done[i + 2].ex = NoEx
    /\ done[i + 2].args = done[i].args

\* C10 as the specification states it: after create_checkpoint, a save and
\* restore_checkpoint, the key of the path holds the bytes it held when the
\* checkpoint was created.
C10_RestoreRoundTrip ==
    \A i \in 1..Len(done) :
        CheckpointRoundTrip(i) =>
            /\ _key(done[i].args[1]) \in DOMAIN After(i + 2)
            /\ After(i + 2)[_key(done[i].args[1])] = done[i].pre[_key(done[i].args[1])]

----------------------------------------------------------------------------
(* Properties of the write lock *)

\* the requests that the bodies wait for, those made under the lock, are
\* serialised: between two of one call there is none of another call
LockedRequestsSerialised ==
    \A i, j, k \in 1..Len(wire) :
        (i < j /\ j < k /\ wire[i].by = wire[k].by
           /\ ~wire[i].detached /\ ~wire[j].detached /\ ~wire[k].detached) =>
            wire[j].by = wire[i].by

\* C3 as the specification states it: the store requests of two calls of
\* mutating methods never interleave; between two requests of one call there
\* is no request of another.
C3_Serialised ==
    \A i, j, k \in 1..Len(wire) :
        (i < j /\ j < k /\ wire[i].by = wire[k].by) => wire[j].by = wire[i].by

----------------------------------------------------------------------------
(* Properties of the chunked save *)

\* the finished saves of path from the i-th operation on, oldest first
SavesFrom(i, path) ==
    SelectSeq(SubSeq(done, i, Len(done)),
              LAMBDA r : r.op = "save" /\ r.args[1] = path)

\* the operation that wrote chunk 1 of path last
LastStart(path) ==
    CHOOSE i \in 0..Len(done) :
        /\ i > 0 => (done[i].op = "save" /\ done[i].args[1] = path
                       /\ done[i].args[2].chunk = 1)
        /\ \A j \in (i + 1)..Len(done) :
              ~(done[j].op = "save" /\ done[j].args[1] = path
                  /\ done[j].args[2].chunk = 1)

\* the last operation has finished an upload to path: chunk 1, then chunks
\* with positive numbers, then chunk -1, every one accepted
Uploaded(path) ==
    /\ LastStart(path) > 0
    /\ outcome.op = "save" /\ outcome.args[1] = path /\ outcome.args[2].chunk = -1
    /\ \A r \in SeqToSet(SavesFrom(LastStart(path), path)) : r.ex = NoEx
    /\ \A j \in LastStart(path)..(Len(done) - 1) :
          done[j].args[1] = path => done[j].args[2].chunk > 0

\* the payloads of the chunks of the upload, one after another
Payloads(path) ==
    JoinBytes([j \in 1..Len(SavesFrom(LastStart(path), path)) |->
                  Tail(SavesFrom(LastStart(path), path)[j].args[2].content.v)])

Puts == {d \in 1..Len(log) : log[d].m = "PUT"}

\* C5: after an upload to a path in chunks (chunk 1, chunks with positive
\* numbers, chunk -1, each accepted), the key of the path holds the
\* concatenation of the payloads of all chunks, the last included, in the
\* order they came; the last chunk issued one write and no buffer is left
\* for the path; an accepted chunk other than the last issues no request and
\* leaves the bucket as it was.
C5_ChunksAssemble ==
    /\ \A path \in {<<"t.txt">>, <<"a", "c">>} :
          Uploaded(path) =>
             /\ _key(path) \in DOMAIN store
             /\ store[_key(path)] = Payloads(path)
             /\ Cardinality(Puts) = 1
             /\ path \notin DOMAIN uploads
    /\ (outcome.op = "save" /\ outcome.ex = NoEx /\ outcome.args[2].chunk # -1) =>
          /\ log = <<>>
          /\ store = outcome.pre

\* chunks 1:"a", 2:"b", -1:"c" of one path have been saved and its key holds "abc"
C5_Witness ==
    /\ Uploaded(<<"t.txt">>)
    /\ Len(SavesFrom(LastStart(<<"t.txt">>), <<"t.txt">>)) = 3
    /\ store[<<"t.txt">>] = <<"a", "b", "c">>

----------------------------------------------------------------------------
(* Properties of the retries *)

\* an attempt that ended in HTTP 429, HTTP 5xx or a timeout
C6_Transient(o) ==
    \/ o.type = "TimeoutError"
    \/ o.type = "HTTPClientError" /\ (o.code = 429 \/ o.code \in 500..599)

\* C6: a logical store request is attempted 4 times at most; every attempt
\* but the last ended in HTTP 429, HTTP 5xx or a timeout; an attempt that
\* ends in a response ends the request with that response, one that ends in
\* any other error ends it with that error, the fourth ends it whatever
\* its outcome, and after any other attempt a further one is made.
C6_Retry ==
    LET n == Len(fetch.attempts)
    IN  /\ n <= 4
        /\ \A i \in 1..(n - 1) : C6_Transient(fetch.attempts[i])
        /\ n >= 1 =>
              IF fetch.attempts[n].type = "response"
              THEN fetch.state = "returned"
              ELSE IF ~C6_Transient(fetch.attempts[n])
              THEN fetch.state = "raised" /\ fetch.ex = fetch.attempts[n]
              ELSE IF n = 4
              THEN fetch.state = "raised" /\ fetch.ex.type = "RetryError"
              ELSE fetch.state \in {"sleep", "attempt"}

\* a transport that answered 503, 503, 200: the third attempt succeeded
C6_Witness ==
    /\ fetch.state = "returned"
    /\ fetch.attempts = <<HTTPClientError(503), HTTPClientError(503), Response(200)>>

----------------------------------------------------------------------------
(* Properties of the paged listing *)

C7_AllKeys == JoinBytes([i \in 1..Len(pager.received) |-> pager.received[i].keys])

C7_AllDirectories ==
    JoinBytes([i \in 1..Len(pager.received) |-> pager.received[i].directories])

\* C7: a listing issues one request per page that the store serves, each
\* after the response to the one before; the first carries the prefix, each
\* later one the token of the response just before it, which is not empty;
\* the listing returns at the first response with an empty token, and
\* returns the keys and the common prefixes of all pages in the order they
\* came, each entry of the listing once.
C7_Pages ==
    /\ Len(pager.sent) = Len(pager.received)
    /\ \A i \in 1..Len(pager.sent) :
          IF i = 1 THEN pager.sent[i] = [prefix |-> TRUE, token |-> <<>>]
          ELSE /\ pager.received[i - 1].token # <<>>
               /\ pager.sent[i] = [prefix |-> FALSE, token |-> pager.received[i - 1].token]
    /\ pager.state = "returned" =>
          /\ Last(pager.received).token = <<>>
          /\ pager.keys = C7_AllKeys
          /\ pager.directories = C7_AllDirectories
          /\ SeqToSet(pager.keys) = {Key(i) : i \in {j \in 1..Len(pager.listing) :
                                                       pager.listing[j] = "key"}}
          /\ SeqToSet(pager.directories) =
                {Prefix(i) : i \in {j \in 1..Len(pager.listing) :
                                      pager.listing[j] = "prefix"}}
          /\ Len(pager.keys) + Len(pager.directories) = Len(pager.listing)

\* a listing of keys and common prefixes has been served in three pages
C7_Witness ==
    /\ pager.state = "returned"
    /\ Len(pager.sent) = 3
    /\ Len(pager.keys) >= 2
    /\ Len(pager.directories) >= 1

----------------------------------------------------------------------------
(* The name of a copy *)

\* the names a copy of a file can get: the name without a marker, then the
\* name with "-Copy1", "-Copy2", "-Copy3" before its extension
C11_Names(name) ==
    IF name \in {"t.txt", "t-Copy1.txt", "t-Copy2.txt", "t-Copy3.txt"}
    THEN <<"t.txt", "t-Copy1.txt", "t-Copy2.txt", "t-Copy3.txt">>
    ELSE <<"n.ipynb", "n-Copy1.ipynb", "n-Copy2.ipynb", "n-Copy3.ipynb">>

\* the directory the last copy went to, and the file it copied
C11_To == IF outcome.args[2].some THEN outcome.args[2].v ELSE FromDir(outcome.args[1])

C11_Source == Last(outcome.args[1])

\* the i-th name exists in the destination when the copy starts
C11_Taken(i) == ExistsAt(outcome.pre, _key(C11_To \o <<C11_Names(C11_Source)[i + 1]>>))

\* the least i >= from whose name does not exist in the destination
C11_Least(from) ==
    CHOOSE i \in from..3 : ~C11_Taken(i) /\ \A j \in from..(i - 1) : C11_Taken(j)

----------------------------------------------------------------------------
(* save, then get *)

\* the i-th operation is a save that returned and the next a get, of the
\* same path with content, under the type and format of the save, that
\* returned too
C12_SaveThenGet(i) ==
    /\ i + 1 <= Len(done)
    /\ done[i].op = "save" /\ done[i].ex = NoEx
    /\ done[i + 1].op = "get" /\ done[i + 1].ex = NoEx
    /\ done[i + 1].args[1] = done[i].args[1]
    /\ done[i + 1].args[2]
    /\ done[i + 1].args[3] = done[i].args[2].type
    /\ \/ done[i].args[2].type = "directory"
       \/ done[i + 1].args[4] = done[i].args[2].format

\* what a get makes of saved content: base64 text loses its line breaks,
\* the fragments of a notebook cell's source become one string
C12_Normalised(saved) ==
    IF Head(saved) = "b64" THEN SelectSeq(saved, LAMBDA group : group # "nl")
    ELSE IF Head(saved) = "doc" THEN <<"doc", "str">> \o SubSeq(saved, 3, Len(saved))
    ELSE saved

----------------------------------------------------------------------------
(* get of what the store refuses *)

\* the last get ended in the branch of _get that handles a 403 or a 404
\* answered to the request for the object
C13_Refused ==
    /\ Finished("get")
    /\ outcome.ex.type = "HTTPServerError"
    /\ outcome.ex.msg = "No such file or directory"

\* C13 as the specification states it: a get whose request for the object
\* is answered 403 or 404 ends with one and the same NotFound outcome, the
\* one of an absent key, having asked for the object once.
C13_OneOutcome ==
    C13_Refused =>
        /\ outcome.ex = HTTPServerError(404, "No such file or directory")
        /\ Len(SelectSeq(log, LAMBDA r : r.m \in {"GET", "HEAD"}
                                         /\ r.key = _key(outcome.args[1]))) = 1

----------------------------------------------------------------------------
(* dir_exists *)

\* C14: dir_exists answers true for "" and "/" without any store request;
\* for any other path its answer, when it gives one, is true exactly when
\* the bucket, as it is at the time of the call, holds the marker
\* key(path) + "/" or a key that starts with it; the bucket is left as it
\* was.
C14_DirExists ==
    Finished("dir_exists") =>
        /\ store = outcome.pre
        /\ _is_root(outcome.args[1]) =>
              outcome.ex = NoEx /\ outcome.val = TRUE /\ log = <<>>
        /\ (~_is_root(outcome.args[1]) /\ outcome.ex = NoEx) =>
              /\ outcome.val = (Under(store, _key(outcome.args[1])) # {})
              /\ log # <<>>

\* "c" is no directory, is made one by a save, and the dir_exists that
\* follows says so
C14_Witness ==
    /\ Len(done) = 2
    /\ done[1].op = "save" /\ done[1].ex = NoEx /\ done[1].args[1] = <<"c">>
    /\ Under(done[1].pre, <<"c">>) = {}
    /\ done[2].op = "dir_exists" /\ done[2].args[1] = <<"c">>
    /\ done[2].ex = NoEx /\ done[2].val = TRUE

----------------------------------------------------------------------------
(* The entry records that operations return *)

\* the last operation returned an entry record
C15_Returned ==
    /\ cur.pc = "idle"
    /\ outcome.op \in {"get", "save", "rename", "copy"}
    /\ outcome.ex = NoEx

\* content was asked for: by a get called with content, by nothing else
C15_Requested == outcome.op = "get" /\ outcome.args[2]

\* C15: in every entry record that get, save (a chunk that is not the last
\* included), rename and copy return, content is null unless content was
\* requested, and format is null whenever content is null; the entries of a
\* directory listing carry neither.
C15_Entries ==
    C15_Returned =>
        /\ ~C15_Requested => outcome.val.content = NoneV
        /\ outcome.val.content = NoneV => outcome.val.format = "None"
        /\ (outcome.val.type = "directory" /\ outcome.val.content # NoneV) =>
              \A i \in 1..Len(outcome.val.content.v) :
                 DOMAIN outcome.val.content.v[i] = {"type", "name", "path"}

\* a first chunk, which is kept in memory and answered without any store
\* request, returned a record without content and without format
C15_Witness ==
    /\ C15_Returned
    /\ outcome.op = "save" /\ HasKey(outcome.args[2], "chunk")
    /\ outcome.args[2].chunk = 1
    /\ log = <<>>
    /\ outcome.val.content = NoneV /\ outcome.val.format = "None"

----------------------------------------------------------------------------
(* The order of the copies of a rename *)

\* the COPY requests of the log, oldest first
C16_Copies == SelectSeq(log, LAMBDA r : r.m = "COPY")

\* the number of "/" in a key, and whether it is a directory marker
C16_Depth(key) == Len(key) - 1

C16_Marker(key) == Len(key) >= 2 /\ key[Len(key)] = ""

\* key x does not come after key y in ascending (slashes, marker first)
C16_NotAfter(x, y) ==
    \/ C16_Depth(x) < C16_Depth(y)
    \/ C16_Depth(x) = C16_Depth(y) /\ (C16_Marker(x) \/ ~C16_Marker(y))

\* C16: a rename copies in ascending order of (number of slashes, marker
\* before non-marker), and at no state does the copy of a key exist under
\* the new prefix while the marker of one of its ancestor directories in
\* the rename set has not been copied.
C16_MarkersFirst ==
    this.op = "rename" =>
        /\ \A i, j \in 1..Len(C16_Copies) :
              i < j => C16_NotAfter(C16_Copies[i].src, C16_Copies[j].src)
        /\ \A k, marker \in Sources :
              (/\ C16_Marker(marker) /\ k # marker /\ StartsWith(k, marker)
               /\ Rewritten(OldKey, NewKey, k) \in DOMAIN store) =>
                  Rewritten(OldKey, NewKey, marker) \in DOMAIN store

\* the directory "a" is being renamed: its marker and its file are copied,
\* the marker "a/b/" and the notebook below it are not yet
C16_Witness ==
    /\ cur.op = "rename" /\ cur.pc = "copy" /\ OldKey = <<"a">>
    /\ {<<"a", "">>, <<"a", "t.txt">>, <<"a", "b", "">>, <<"a", "b", "n.ipynb">>}
          \subseteq Sources
    /\ Rewritten(OldKey, NewKey, <<"a", "">>) \in DOMAIN store
    /\ Rewritten(OldKey, NewKey, <<"a", "t.txt">>) \in DOMAIN store
    /\ Rewritten(OldKey, NewKey, <<"a", "b", "">>) \notin DOMAIN store
    /\ Rewritten(OldKey, NewKey, <<"a", "b", "n.ipynb">>) \notin DOMAIN store

----------------------------------------------------------------------------
(* The order of the deletes of a rename *)

\* the keys that the COPY requests of the log read, and the keys that its
\* DELETE requests remove, oldest first
C17_Copied == [i \in 1..Len(C16_Copies) |-> C16_Copies[i].src]

C17_Deleted ==
    Bind(SelectSeq(log, LAMBDA r : r.m = "DELETE"), LAMBDA deletes :
        [i \in 1..Len(deletes) |-> deletes[i].key])

C17_Reverse(seq) == [i \in 1..Len(seq) |-> seq[Len(seq) + 1 - i]]

\* the rename has issued a DELETE for each of its copies
C17_AllDeleted ==
    /\ this.op = "rename"
    /\ C17_Copied # <<>>
    /\ Len(C17_Deleted) = Len(C17_Copied)

\* keys x and y are of one depth and kind
C17_Alike(x, y) == C16_Depth(x) = C16_Depth(y) /\ C16_Marker(x) = C16_Marker(y)

\* C17 as the specification states it: the delete sequence of a rename is
\* the exact reverse of its copy sequence.
C17_ExactReverse == C17_AllDeleted => C17_Deleted = C17_Reverse(C17_Copied)

\* C17: the delete sequence of a rename holds the keys of its copy sequence
\* and reverses the order of their (depth, kind) classes: deeper keys
\* first, at equal depth non-markers before markers, the object's own key
\* last; keys of equal depth and kind are deleted in the order in which
\* they were copied.
C17_ReverseByClass ==
    C17_AllDeleted =>
        /\ \A i, j \in 1..Len(C17_Deleted) :
              i < j => C16_NotAfter(C17_Deleted[j], C17_Deleted[i])
        /\ \A k \in SeqToSet(C17_Copied) :
              SelectSeq(C17_Deleted, LAMBDA d : C17_Alike(d, k))
                 = SelectSeq(C17_Copied, LAMBDA c : C17_Alike(c, k))

\* a rename went through its deletes and two of its keys are of one depth
\* and kind, and two are not
C17_Witness ==
    /\ C17_AllDeleted
    /\ \E x, y \in SeqToSet(C17_Copied) : x # y /\ C17_Alike(x, y)
    /\ \E x, y \in SeqToSet(C17_Copied) : ~C17_Alike(x, y)

----------------------------------------------------------------------------
(* The order in which keys are removed *)

\* the keys that the requests of the log remove, oldest first: one for a
\* DELETE, those of the batch for a POST
C18_Removed ==
    Bind(SelectSeq(log, LAMBDA r : r.m \in {"DELETE", "POST"}), LAMBDA removals :
        JoinBytes([i \in 1..Len(removals) |->
                     IF removals[i].m = "POST" THEN removals[i].key
                     ELSE <<removals[i].key>>]))

----------------------------------------------------------------------------
(* The batches of a delete *)

\* the batches that the POST requests of the log name, oldest first
C19_Batches ==
    Bind(SelectSeq(log, LAMBDA r : r.m = "POST"), LAMBDA posts :
        [i \in 1..Len(posts) |-> posts[i].key])

\* the keys a delete of the last path has to remove: what the bucket held
\* below the path when it started, and the key of the path
C19_ToRemove == Under(this.pre, _key(this.args[1])) \cup {_key(this.args[1])}

\* C19: the batch requests of a delete partition its ordered key list:
\* each names at most DeleteBatchSize keys, and exactly that many unless it
\* is the last; no key is named twice; the batches follow the list in its
\* order; a batch is issued only when the one before it has removed its
\* keys; and a delete that returns has named every key, in
\* ceil(n / DeleteBatchSize) requests.
C19_Partition ==
    this.op = "delete" =>
        /\ \A i \in 1..Len(C19_Batches) :
              /\ Len(C19_Batches[i]) \in 1..DeleteBatchSize
              /\ i < Len(C19_Batches) =>
                    /\ Len(C19_Batches[i]) = DeleteBatchSize
                    /\ SeqToSet(C19_Batches[i]) \cap DOMAIN store = {}
        /\ \A i, j \in 1..Len(JoinBytes(C19_Batches)) :
              i # j => JoinBytes(C19_Batches)[i] # JoinBytes(C19_Batches)[j]
        /\ cur.op = "delete" =>
              JoinBytes(C19_Batches) = SubSeq(cur.keys, 1, Len(JoinBytes(C19_Batches)))
        /\ Completed("delete") =>
              /\ SeqToSet(JoinBytes(C19_Batches)) = C19_ToRemove
              /\ Len(C19_Batches) =
                    (Cardinality(C19_ToRemove) + DeleteBatchSize - 1) \div DeleteBatchSize

\* a delete of directory "a" returned after three batches, the last of
\* which was not full
C19_Witness ==
    /\ Completed("delete")
    /\ Len(C19_Batches) = 3
    /\ Len(C19_Batches[3]) < DeleteBatchSize

----------------------------------------------------------------------------
(* delete, and delete again *)

\* the second of two deletes of one path, the first of which failed after
\* the store had carried out some batch
C20_Reissued ==
    /\ Len(done) = 2
    /\ done[1].op = "delete" /\ done[2].op = "delete"
    /\ done[1].args = done[2].args
    /\ done[1].ex # NoEx
    /\ done[2].pre # done[1].pre

\* C20: when a delete returns without error, no key equal to key(path) and
\* no key that starts with key(path) + "/" remains; when it fails, every
\* key still in the bucket is as it was and no key outside the deleted
\* tree is gone; and the same delete issued again after a failure that
\* left part of the tree, no request failing this time, returns without
\* error and leaves nothing of the tree.
C20_DeleteAll ==
    /\ Completed("delete") => ~ExistsAt(store, _key(outcome.args[1]))
    /\ Failed("delete") =>
          /\ \A k \in DOMAIN store : k \in DOMAIN outcome.pre /\ store[k] = outcome.pre[k]
          /\ (DOMAIN outcome.pre) \ C19_ToRemove \subseteq DOMAIN store
    /\ (cur.pc = "idle" /\ C20_Reissued) =>
          /\ done[2].ex = NoEx
          /\ ~ExistsAt(store, _key(done[2].args[1]))

\* a delete of directory "a" failed when part of the tree was gone; the
\* same delete, issued again, removed the rest
C20_Witness ==
    /\ cur.pc = "idle" /\ C20_Reissued
    /\ done[1].args = <<<<"a">>>>
    /\ Under(done[2].pre, <<"a">>) # {}
    /\ done[2].ex = NoEx
    /\ Under(store, <<"a">>) = {}

----------------------------------------------------------------------------
(* Properties of the expiry of the upload buffers *)

\* the chunks of the upload to path that chunk 1 started last, oldest first
UploadChunks(path) == SavesFrom(LastStart(path), path)

\* the upload is still open at its j-th chunk: no chunk before it was the
\* finalizing one
C21_Open(path, j) == \A k \in 1..(j - 1) : UploadChunks(path)[k].args[2].chunk # -1

\* every chunk up to the j-th came less than an hour after the one before it
C21_InTime(path, j) ==
    \A k \in 2..j : UploadChunks(path)[k].at - UploadChunks(path)[k - 1].at < UploadTtl

\* C21: a buffer is evicted only after an hour without a chunk for its path.
\* While every chunk of an upload comes less than an hour after the one
\* before it, the buffer stays and every chunk, the finalizing one included,
\* finds it, however long the upload takes as a whole; a chunk that comes an
\* hour or more after the one before it finds no buffer.
C21_SlidingExpiry ==
    \A path \in ChunkPaths :
        LastStart(path) > 0 =>
            \A j \in 1..Len(UploadChunks(path)) :
                C21_Open(path, j) =>
                    /\ C21_InTime(path, j) => UploadChunks(path)[j].ex # KeyError
                    /\ (j > 1 /\ UploadChunks(path)[j].at - UploadChunks(path)[j - 1].at
                                    >= UploadTtl)
                          => UploadChunks(path)[j].ex = KeyError

----------------------------------------------------------------------------
(* Properties of the buffers of different paths *)

\* the payloads of the chunks of the upload to path, one segment a chunk
C22_Segments(path) ==
    [j \in 1..Len(UploadChunks(path)) |-> Tail(UploadChunks(path)[j].args[2].content.v)]

\* an upload to path has begun, every chunk of it was accepted and none was
\* the finalizing one
C22_Open(path) ==
    /\ LastStart(path) > 0
    /\ \A r \in SeqToSet(UploadChunks(path)) : r.ex = NoEx /\ r.args[2].chunk # -1

\* C22: the buffers are kept by path.  Whatever chunks of other paths come in
\* between, the buffer of a path holds the payloads of the chunks of its own
\* upload, in the order they came, and nothing else; chunk 1 for a path that
\* has a buffer starts it afresh, so that it holds the new chunk only; a
\* buffer is not lost to the calls for another path while it has not
\* expired; and an accepted finalizing chunk stores the concatenation of the
\* chunks of its own path.
C22_BuffersByPath ==
    \A path \in ChunkPaths :
        /\ path \in DOMAIN uploads =>
              /\ C22_Open(path)
              /\ uploads[path].value = C22_Segments(path)
        /\ (C22_Open(path) /\ mono < done[LastStart(path)].at + UploadTtl) =>
              path \in DOMAIN uploads
        /\ (/\ outcome.op = "save" /\ outcome.args[1] = path
            /\ outcome.args[2].chunk = -1 /\ outcome.ex = NoEx) =>
              /\ _key(path) \in DOMAIN store
              /\ store[_key(path)] = JoinBytes(C22_Segments(path))

\* chunk 1 of t.txt, chunk 1 of a/c, then the finalizing chunk of t.txt: the
\* key of t.txt holds "ac" and the buffer of a/c holds "x"
C22_Witness ==
    /\ Len(done) = 3
    /\ done[1].args[1] = <<"t.txt">> /\ done[2].args[1] = <<"a", "c">>
    /\ outcome.args = <<(<<"t.txt">>), outcome.args[2]>>
    /\ outcome.args[2].chunk = -1 /\ outcome.ex = NoEx
    /\ store[<<"t.txt">>] = <<"a", "c">>
    /\ <<"a", "c">> \in DOMAIN uploads
    /\ uploads[<<"a", "c">>].value = << <<"x">> >>

\* chunk 1 of t.txt, a later chunk of it, then chunk 1 of t.txt again: the
\* buffer holds the new chunk only
C22_Restarted ==
    /\ Len(done) = 3 /\ LastStart(<<"t.txt">>) = 3
    /\ done[1].args[1] = <<"t.txt">> /\ done[2].args[1] = <<"t.txt">>
    /\ done[2].ex = NoEx
    /\ uploads[<<"t.txt">>].value = << <<"a">> >>

----------------------------------------------------------------------------
(* Properties of the release of write_lock *)

\* the lock is held by a call that is in its body or about to enter it, never
\* by one that has ended or one that waits in line
C23_HeldByRunning ==
    \A c \in Callers :
        /\ lock.holder = c => calls[c].pc \in {"enter", "body"}
        /\ calls[c].pc = "done" => lock.holder # c
        /\ calls[c].pc = "waiting" <=> c \in SeqToSet(lock.waiters)
        /\ c \in SeqToSet(lock.waiters) => lock.holder \notin {c, "none"}

\* C23: the lock is released whenever the mutating call that holds it ends,
\* whether its body returns or one of its requests fails for good; so, every
\* store request being answered in the end, every mutating call that waits
\* for the lock comes to hold it and to run its body, and no call waits for
\* the lock while it holds it.
C23_LockReleased ==
    /\ []C23_HeldByRunning
    /\ \A c \in Callers :
          (calls[c].pc = "waiting") ~> (lock.holder = c /\ calls[c].pc = "body")
    /\ \A c \in Callers : (lock.holder = c) ~> (lock.holder # c)

\* caller B, which had to wait for the lock, runs its body after caller A,
\* whose request had failed, has ended
C23_Witness ==
    /\ calls["A"].pc = "done" /\ calls["A"].left = 0
    /\ calls["B"].waited /\ calls["B"].pc = "body" /\ lock.holder = "B"
    /\ wire # <<>> /\ wire[1].by = "A"

----------------------------------------------------------------------------
(* Properties of the refresh of the credentials *)

\* the callers whose request to the metadata endpoint is under way
C24_Fetching == {c \in Callers : auth.asks[c].pc = "fetching"}

\* C24: when several store requests ask for credentials at the same time
\* after the expiry, one request goes to the metadata endpoint and no second
\* one while it is under way, and every caller that is given credentials is
\* given credentials that have not expired.
C24_SingleFlight ==
    /\ Cardinality(C24_Fetching) <= 1
    /\ \A c \in Callers :
          auth.asks[c].pc = "returned" =>
              /\ auth.asks[c].got > 0
              /\ auth.issued[auth.asks[c].got] >= auth.asks[c].at

----------------------------------------------------------------------------
(* Properties of the keys that delete and rename leave alone *)

\* key itself or a key that starts with key + "/"
C25_Within(k, key) == k = key \/ StartsWith(k, Append(key, ""))

\* the keys that the operation has added, removed or given other bytes so far
C25_Touched ==
    {k \in DOMAIN store \cup DOMAIN this.pre :
        \/ (k \in DOMAIN store) # (k \in DOMAIN this.pre)
        \/ k \in DOMAIN store /\ k \in DOMAIN this.pre /\ store[k] # this.pre[k]}

\* C25: delete(path) removes nothing but key(path) and the keys that start
\* with key(path) + "/"; rename(old, new) removes or writes nothing but
\* key(old), the keys that start with key(old) + "/", key(new) and the keys
\* that start with key(new) + "/".  Every other key stays with its bytes, at
\* every request of the operation and however it ends: so does an entry
\* beside it whose name begins with the same characters ("a" and "ab").
C25_OnlyOwnKeys ==
    /\ this.op = "delete" =>
          \A k \in C25_Touched : C25_Within(k, _key(this.args[1]))
    /\ this.op = "rename" =>
          \A k \in C25_Touched : C25_Within(k, OldKey) \/ C25_Within(k, NewKey)

\* delete("a") has removed the directory a, and the file ab and the
\* directory ab beside it are as they were
C25_Witness ==
    /\ Completed("delete") /\ outcome.args = << <<"a">> >>
    /\ {<<"a", "">>, <<"a", "t.txt">>} \subseteq DOMAIN outcome.pre
    /\ DOMAIN store = {<<"ab">>, <<"ab", "t.txt">>}
    /\ store[<<"ab">>] = <<"v">> /\ store[<<"ab", "t.txt">>] = <<"w">>

\* rename("a", "c") has moved the directory a, and the file ab and the
\* directory ab beside it are as they were
C25_Renamed ==
    /\ Completed("rename") /\ outcome.args = <<(<<"a">>), <<"c">> >>
    /\ DOMAIN outcome.pre = {<<"a", "">>, <<"a", "t.txt">>, <<"ab">>, <<"ab", "t.txt">>}
    /\ DOMAIN store = {<<"c", "">>, <<"c", "t.txt">>, <<"ab">>, <<"ab", "t.txt">>}

----------------------------------------------------------------------------
(* Properties of the type of an entry that has checkpoints *)

\* the type that an operation resolves from the path on bucket st
C26_Type(st, path) == _type_from_path(st, path, <<>>, NoFault).val

\* C26: creating a checkpoint does not change the type resolved for its
\* entry.  For a file that is no notebook, stored at the key of its path and
\* resolved as "file", the type resolved from the path after
\* create_checkpoint(path) has returned is "file" still, never "directory".
C26_TypeKept ==
    (/\ Completed("create_checkpoint")
     /\ ~EndsWithIpynb(Last(outcome.args[1]))
     /\ _key(outcome.args[1]) \in DOMAIN outcome.pre
     /\ C26_Type(outcome.pre, outcome.args[1]) = "file") =>
        C26_Type(store, outcome.args[1]) = "file"

----------------------------------------------------------------------------
(* Properties of the rename of an entry that has checkpoints *)

\* the ids of the checkpoints of the entry at key in bucket st
C27_Checkpoints(st, key) ==
    {id \in Names : key \o <<CHECKPOINT_SUFFIX, id>> \in DOMAIN st}

\* C27: after a rename(old, new) that returns without error, where an object
\* (a file or a notebook) was at the key of old: its bytes are at the key of
\* new and no object is at the key of old; every checkpoint that was under
\* old/.checkpoints/ is under new/.checkpoints/ with its id and its bytes,
\* and none is left under old.  This holds whether old has checkpoints or not.
C27_RenameMovesEntry ==
    (Completed("rename") /\ OldKey \in DOMAIN outcome.pre) =>
        /\ NewKey \in DOMAIN store
        /\ store[NewKey] = outcome.pre[OldKey]
        /\ OldKey \notin DOMAIN store
        /\ C27_Checkpoints(store, OldKey) = {}
        /\ \A id \in C27_Checkpoints(outcome.pre, OldKey) :
              /\ id \in C27_Checkpoints(store, NewKey)
              /\ store[NewKey \o <<CHECKPOINT_SUFFIX, id>>]
                    = outcome.pre[OldKey \o <<CHECKPOINT_SUFFIX, id>>]

\* the same of the entries whose type does not depend on their checkpoints
C27_ExceptFilesWithCheckpoints ==
    (/\ Completed("rename")
     /\ EndsWithIpynb(Last(OldKey)) \/ C27_Checkpoints(outcome.pre, OldKey) = {}) =>
        C27_RenameMovesEntry

----------------------------------------------------------------------------
(* Properties of the key that copy writes *)

\* the keys that the requests of the last copy wrote to
C28_Written == {log[i].key : i \in {j \in 1..Len(log) : log[j].m = "COPY"}}

\* C28: copy does not overwrite.  Whatever to_path is (a directory, none,
\* a path where nothing is, the path of a file) and however the copy ends,
\* the key it writes to held no object when the copy began, and every object
\* that was in the bucket is still there with its bytes.
C28_NeverOverwrites ==
    (cur.pc = "idle" /\ outcome.op = "copy") =>
        /\ \A k \in C28_Written : k \notin DOMAIN outcome.pre
        /\ \A k \in DOMAIN outcome.pre :
              k \in DOMAIN store /\ store[k] = outcome.pre[k]

\* the same of the copies none of whose requests failed and whose
\* destination is a directory
C28_IntoDirectories ==
    (Completed("copy") /\ faults = 0) => C28_NeverOverwrites

============================================================================
